---------------------------- MODULE Spec2Model ----------------------------
(***************************************************************************)
(* A model of src/py/ingredients.py: the ingredient normalizer (rename),   *)
(* the outcome decoder (map_yes_no), the inversion of the static           *)
(* category table (Ingredients.ingredient_to_group) and the aggregation    *)
(* pipeline behind Ingredients.stats_dat.                                  *)
(*                                                                         *)
(* A Python str that comes from the input table or is compared with one   *)
(* (a cell, a column name, an ingredient name) is the sequence of its code *)
(* points; a category name, which the code only stores and compares, is a  *)
(* TLA+ string.  A dict is a sequence of <<key, value>> pairs in insertion *)
(* order; a missing (NaN/None) cell is the value NULL; posterior_mean, a   *)
(* float rounded to two decimals, is kept in hundredths.                   *)
(***************************************************************************)
EXTENDS Integers, Sequences, FiniteSets

VARIABLES
    pc,                    \* position of the computation being run
    dat,                   \* Ingredients.dat: the input table, a sequence of rows
    names_to_ingredients,  \* dict brand -> list of canonical ingredients
    names_to_groups,       \* dict brand -> set of categories
    groups_to_hits,        \* dict category -> list of outcomes
    todo,                  \* brands groups_to_hits has still to visit
    stats,                 \* the table stats_dat returns (a sequence of rows)
    err,                   \* the exception that ended the computation, or "none"
    raw,                   \* the argument of rename
    renamed,               \* the successive results of rename on raw
    inv_g, inv_i,          \* loop positions of ingredient_to_group
    inverted               \* the local dict ingredient_to_group builds

vars == <<pc, dat, names_to_ingredients, names_to_groups, groups_to_hits, todo,
          stats, err, raw, renamed, inv_g, inv_i, inverted>>

(***************************************************************************)
(* Bounds of the model.                                                    *)
(***************************************************************************)
MaxRows == 2
MaxTokens == 3

(***************************************************************************)
(* Python strings.  A str is the sequence of its code points, whatever the *)
(* characters are: Str gives the one of a string written in this module.   *)
(***************************************************************************)
\* the printable ASCII characters this module's strings are written with, in
\* code point order from 32 (space); 96 has no character here
Printable ==
    " !\"#$%&'()*+,-./0123456789:;<=>?@ABCDEFGHIJKLMNOPQRSTUVWXYZ[\\]^_"
        \o "abcdefghijklmnopqrstuvwxyz{|}~"

\* ord(c)
Ord ==
    [c \in {SubSeq(Printable, i, i) : i \in 1..Len(Printable)} |->
        LET i == CHOOSE j \in 1..Len(Printable) : SubSeq(Printable, j, j) = c
        IN  IF i <= 64 THEN 31 + i ELSE 32 + i]

RECURSIVE Str(_)
Str(s) ==
    IF s = "" THEN <<>> ELSE <<Ord[SubSeq(s, 1, 1)]>> \o Str(SubSeq(s, 2, Len(s)))

(***************************************************************************)
(* str.lower.  Python lowercases each code point by its Unicode lowercase  *)
(* mapping (Unicode 14.0.0 in Python 3.11): an ASCII capital moves by 32,  *)
(* U+0130 becomes two code points, a capital sigma (931) becomes a final   *)
(* sigma (962) at the end of a word and a small sigma (963) elsewhere, and *)
(* LowerPairs lists every other code point that changes.                   *)
(***************************************************************************)
LowerPairs ==
    <<
     <<192, 224>>, <<193, 225>>, <<194, 226>>, <<195, 227>>, <<196, 228>>,
     <<197, 229>>, <<198, 230>>, <<199, 231>>, <<200, 232>>, <<201, 233>>,
     <<202, 234>>, <<203, 235>>, <<204, 236>>, <<205, 237>>, <<206, 238>>,
     <<207, 239>>, <<208, 240>>, <<209, 241>>, <<210, 242>>, <<211, 243>>,
     <<212, 244>>, <<213, 245>>, <<214, 246>>, <<216, 248>>, <<217, 249>>,
     <<218, 250>>, <<219, 251>>, <<220, 252>>, <<221, 253>>, <<222, 254>>,
     <<256, 257>>, <<258, 259>>, <<260, 261>>, <<262, 263>>, <<264, 265>>,
     <<266, 267>>, <<268, 269>>, <<270, 271>>, <<272, 273>>, <<274, 275>>,
     <<276, 277>>, <<278, 279>>, <<280, 281>>, <<282, 283>>, <<284, 285>>,
     <<286, 287>>, <<288, 289>>, <<290, 291>>, <<292, 293>>, <<294, 295>>,
     <<296, 297>>, <<298, 299>>, <<300, 301>>, <<302, 303>>, <<306, 307>>,
     <<308, 309>>, <<310, 311>>, <<313, 314>>, <<315, 316>>, <<317, 318>>,
     <<319, 320>>, <<321, 322>>, <<323, 324>>, <<325, 326>>, <<327, 328>>,
     <<330, 331>>, <<332, 333>>, <<334, 335>>, <<336, 337>>, <<338, 339>>,
     <<340, 341>>, <<342, 343>>, <<344, 345>>, <<346, 347>>, <<348, 349>>,
     <<350, 351>>, <<352, 353>>, <<354, 355>>, <<356, 357>>, <<358, 359>>,
     <<360, 361>>, <<362, 363>>, <<364, 365>>, <<366, 367>>, <<368, 369>>,
     <<370, 371>>, <<372, 373>>, <<374, 375>>, <<376, 255>>, <<377, 378>>,
     <<379, 380>>, <<381, 382>>, <<385, 595>>, <<386, 387>>, <<388, 389>>,
     <<390, 596>>, <<391, 392>>, <<393, 598>>, <<394, 599>>, <<395, 396>>,
     <<398, 477>>, <<399, 601>>, <<400, 603>>, <<401, 402>>, <<403, 608>>,
     <<404, 611>>, <<406, 617>>, <<407, 616>>, <<408, 409>>, <<412, 623>>,
     <<413, 626>>, <<415, 629>>, <<416, 417>>, <<418, 419>>, <<420, 421>>,
     <<422, 640>>, <<423, 424>>, <<425, 643>>, <<428, 429>>, <<430, 648>>,
     <<431, 432>>, <<433, 650>>, <<434, 651>>, <<435, 436>>, <<437, 438>>,
     <<439, 658>>, <<440, 441>>, <<444, 445>>, <<452, 454>>, <<453, 454>>,
     <<455, 457>>, <<456, 457>>, <<458, 460>>, <<459, 460>>, <<461, 462>>,
     <<463, 464>>, <<465, 466>>, <<467, 468>>, <<469, 470>>, <<471, 472>>,
     <<473, 474>>, <<475, 476>>, <<478, 479>>, <<480, 481>>, <<482, 483>>,
     <<484, 485>>, <<486, 487>>, <<488, 489>>, <<490, 491>>, <<492, 493>>,
     <<494, 495>>, <<497, 499>>, <<498, 499>>, <<500, 501>>, <<502, 405>>,
     <<503, 447>>, <<504, 505>>, <<506, 507>>, <<508, 509>>, <<510, 511>>,
     <<512, 513>>, <<514, 515>>, <<516, 517>>, <<518, 519>>, <<520, 521>>,
     <<522, 523>>, <<524, 525>>, <<526, 527>>, <<528, 529>>, <<530, 531>>,
     <<532, 533>>, <<534, 535>>, <<536, 537>>, <<538, 539>>, <<540, 541>>,
     <<542, 543>>, <<544, 414>>, <<546, 547>>, <<548, 549>>, <<550, 551>>,
     <<552, 553>>, <<554, 555>>, <<556, 557>>, <<558, 559>>, <<560, 561>>,
     <<562, 563>>, <<570, 11365>>, <<571, 572>>, <<573, 410>>,
     <<574, 11366>>, <<577, 578>>, <<579, 384>>, <<580, 649>>, <<581, 652>>,
     <<582, 583>>, <<584, 585>>, <<586, 587>>, <<588, 589>>, <<590, 591>>,
     <<880, 881>>, <<882, 883>>, <<886, 887>>, <<895, 1011>>, <<902, 940>>,
     <<904, 941>>, <<905, 942>>, <<906, 943>>, <<908, 972>>, <<910, 973>>,
     <<911, 974>>, <<913, 945>>, <<914, 946>>, <<915, 947>>, <<916, 948>>,
     <<917, 949>>, <<918, 950>>, <<919, 951>>, <<920, 952>>, <<921, 953>>,
     <<922, 954>>, <<923, 955>>, <<924, 956>>, <<925, 957>>, <<926, 958>>,
     <<927, 959>>, <<928, 960>>, <<929, 961>>, <<932, 964>>, <<933, 965>>,
     <<934, 966>>, <<935, 967>>, <<936, 968>>, <<937, 969>>, <<938, 970>>,
     <<939, 971>>, <<975, 983>>, <<984, 985>>, <<986, 987>>, <<988, 989>>,
     <<990, 991>>, <<992, 993>>, <<994, 995>>, <<996, 997>>, <<998, 999>>,
     <<1000, 1001>>, <<1002, 1003>>, <<1004, 1005>>, <<1006, 1007>>,
     <<1012, 952>>, <<1015, 1016>>, <<1017, 1010>>, <<1018, 1019>>,
     <<1021, 891>>, <<1022, 892>>, <<1023, 893>>, <<1024, 1104>>,
     <<1025, 1105>>, <<1026, 1106>>, <<1027, 1107>>, <<1028, 1108>>,
     <<1029, 1109>>, <<1030, 1110>>, <<1031, 1111>>, <<1032, 1112>>,
     <<1033, 1113>>, <<1034, 1114>>, <<1035, 1115>>, <<1036, 1116>>,
     <<1037, 1117>>, <<1038, 1118>>, <<1039, 1119>>, <<1040, 1072>>,
     <<1041, 1073>>, <<1042, 1074>>, <<1043, 1075>>, <<1044, 1076>>,
     <<1045, 1077>>, <<1046, 1078>>, <<1047, 1079>>, <<1048, 1080>>,
     <<1049, 1081>>, <<1050, 1082>>, <<1051, 1083>>, <<1052, 1084>>,
     <<1053, 1085>>, <<1054, 1086>>, <<1055, 1087>>, <<1056, 1088>>,
     <<1057, 1089>>, <<1058, 1090>>, <<1059, 1091>>, <<1060, 1092>>,
     <<1061, 1093>>, <<1062, 1094>>, <<1063, 1095>>, <<1064, 1096>>,
     <<1065, 1097>>, <<1066, 1098>>, <<1067, 1099>>, <<1068, 1100>>,
     <<1069, 1101>>, <<1070, 1102>>, <<1071, 1103>>, <<1120, 1121>>,
     <<1122, 1123>>, <<1124, 1125>>, <<1126, 1127>>, <<1128, 1129>>,
     <<1130, 1131>>, <<1132, 1133>>, <<1134, 1135>>, <<1136, 1137>>,
     <<1138, 1139>>, <<1140, 1141>>, <<1142, 1143>>, <<1144, 1145>>,
     <<1146, 1147>>, <<1148, 1149>>, <<1150, 1151>>, <<1152, 1153>>,
     <<1162, 1163>>, <<1164, 1165>>, <<1166, 1167>>, <<1168, 1169>>,
     <<1170, 1171>>, <<1172, 1173>>, <<1174, 1175>>, <<1176, 1177>>,
     <<1178, 1179>>, <<1180, 1181>>, <<1182, 1183>>, <<1184, 1185>>,
     <<1186, 1187>>, <<1188, 1189>>, <<1190, 1191>>, <<1192, 1193>>,
     <<1194, 1195>>, <<1196, 1197>>, <<1198, 1199>>, <<1200, 1201>>,
     <<1202, 1203>>, <<1204, 1205>>, <<1206, 1207>>, <<1208, 1209>>,
     <<1210, 1211>>, <<1212, 1213>>, <<1214, 1215>>, <<1216, 1231>>,
     <<1217, 1218>>, <<1219, 1220>>, <<1221, 1222>>, <<1223, 1224>>,
     <<1225, 1226>>, <<1227, 1228>>, <<1229, 1230>>, <<1232, 1233>>,
     <<1234, 1235>>, <<1236, 1237>>, <<1238, 1239>>, <<1240, 1241>>,
     <<1242, 1243>>, <<1244, 1245>>, <<1246, 1247>>, <<1248, 1249>>,
     <<1250, 1251>>, <<1252, 1253>>, <<1254, 1255>>, <<1256, 1257>>,
     <<1258, 1259>>, <<1260, 1261>>, <<1262, 1263>>, <<1264, 1265>>,
     <<1266, 1267>>, <<1268, 1269>>, <<1270, 1271>>, <<1272, 1273>>,
     <<1274, 1275>>, <<1276, 1277>>, <<1278, 1279>>, <<1280, 1281>>,
     <<1282, 1283>>, <<1284, 1285>>, <<1286, 1287>>, <<1288, 1289>>,
     <<1290, 1291>>, <<1292, 1293>>, <<1294, 1295>>, <<1296, 1297>>,
     <<1298, 1299>>, <<1300, 1301>>, <<1302, 1303>>, <<1304, 1305>>,
     <<1306, 1307>>, <<1308, 1309>>, <<1310, 1311>>, <<1312, 1313>>,
     <<1314, 1315>>, <<1316, 1317>>, <<1318, 1319>>, <<1320, 1321>>,
     <<1322, 1323>>, <<1324, 1325>>, <<1326, 1327>>, <<1329, 1377>>,
     <<1330, 1378>>, <<1331, 1379>>, <<1332, 1380>>, <<1333, 1381>>,
     <<1334, 1382>>, <<1335, 1383>>, <<1336, 1384>>, <<1337, 1385>>,
     <<1338, 1386>>, <<1339, 1387>>, <<1340, 1388>>, <<1341, 1389>>,
     <<1342, 1390>>, <<1343, 1391>>, <<1344, 1392>>, <<1345, 1393>>,
     <<1346, 1394>>, <<1347, 1395>>, <<1348, 1396>>, <<1349, 1397>>,
     <<1350, 1398>>, <<1351, 1399>>, <<1352, 1400>>, <<1353, 1401>>,
     <<1354, 1402>>, <<1355, 1403>>, <<1356, 1404>>, <<1357, 1405>>,
     <<1358, 1406>>, <<1359, 1407>>, <<1360, 1408>>, <<1361, 1409>>,
     <<1362, 1410>>, <<1363, 1411>>, <<1364, 1412>>, <<1365, 1413>>,
     <<1366, 1414>>, <<4256, 11520>>, <<4257, 11521>>, <<4258, 11522>>,
     <<4259, 11523>>, <<4260, 11524>>, <<4261, 11525>>, <<4262, 11526>>,
     <<4263, 11527>>, <<4264, 11528>>, <<4265, 11529>>, <<4266, 11530>>,
     <<4267, 11531>>, <<4268, 11532>>, <<4269, 11533>>, <<4270, 11534>>,
     <<4271, 11535>>, <<4272, 11536>>, <<4273, 11537>>, <<4274, 11538>>,
     <<4275, 11539>>, <<4276, 11540>>, <<4277, 11541>>, <<4278, 11542>>,
     <<4279, 11543>>, <<4280, 11544>>, <<4281, 11545>>, <<4282, 11546>>,
     <<4283, 11547>>, <<4284, 11548>>, <<4285, 11549>>, <<4286, 11550>>,
     <<4287, 11551>>, <<4288, 11552>>, <<4289, 11553>>, <<4290, 11554>>,
     <<4291, 11555>>, <<4292, 11556>>, <<4293, 11557>>, <<4295, 11559>>,
     <<4301, 11565>>, <<5024, 43888>>, <<5025, 43889>>, <<5026, 43890>>,
     <<5027, 43891>>, <<5028, 43892>>, <<5029, 43893>>, <<5030, 43894>>,
     <<5031, 43895>>, <<5032, 43896>>, <<5033, 43897>>, <<5034, 43898>>,
     <<5035, 43899>>, <<5036, 43900>>, <<5037, 43901>>, <<5038, 43902>>,
     <<5039, 43903>>, <<5040, 43904>>, <<5041, 43905>>, <<5042, 43906>>,
     <<5043, 43907>>, <<5044, 43908>>, <<5045, 43909>>, <<5046, 43910>>,
     <<5047, 43911>>, <<5048, 43912>>, <<5049, 43913>>, <<5050, 43914>>,
     <<5051, 43915>>, <<5052, 43916>>, <<5053, 43917>>, <<5054, 43918>>,
     <<5055, 43919>>, <<5056, 43920>>, <<5057, 43921>>, <<5058, 43922>>,
     <<5059, 43923>>, <<5060, 43924>>, <<5061, 43925>>, <<5062, 43926>>,
     <<5063, 43927>>, <<5064, 43928>>, <<5065, 43929>>, <<5066, 43930>>,
     <<5067, 43931>>, <<5068, 43932>>, <<5069, 43933>>, <<5070, 43934>>,
     <<5071, 43935>>, <<5072, 43936>>, <<5073, 43937>>, <<5074, 43938>>,
     <<5075, 43939>>, <<5076, 43940>>, <<5077, 43941>>, <<5078, 43942>>,
     <<5079, 43943>>, <<5080, 43944>>, <<5081, 43945>>, <<5082, 43946>>,
     <<5083, 43947>>, <<5084, 43948>>, <<5085, 43949>>, <<5086, 43950>>,
     <<5087, 43951>>, <<5088, 43952>>, <<5089, 43953>>, <<5090, 43954>>,
     <<5091, 43955>>, <<5092, 43956>>, <<5093, 43957>>, <<5094, 43958>>,
     <<5095, 43959>>, <<5096, 43960>>, <<5097, 43961>>, <<5098, 43962>>,
     <<5099, 43963>>, <<5100, 43964>>, <<5101, 43965>>, <<5102, 43966>>,
     <<5103, 43967>>, <<5104, 5112>>, <<5105, 5113>>, <<5106, 5114>>,
     <<5107, 5115>>, <<5108, 5116>>, <<5109, 5117>>, <<7312, 4304>>,
     <<7313, 4305>>, <<7314, 4306>>, <<7315, 4307>>, <<7316, 4308>>,
     <<7317, 4309>>, <<7318, 4310>>, <<7319, 4311>>, <<7320, 4312>>,
     <<7321, 4313>>, <<7322, 4314>>, <<7323, 4315>>, <<7324, 4316>>,
     <<7325, 4317>>, <<7326, 4318>>, <<7327, 4319>>, <<7328, 4320>>,
     <<7329, 4321>>, <<7330, 4322>>, <<7331, 4323>>, <<7332, 4324>>,
     <<7333, 4325>>, <<7334, 4326>>, <<7335, 4327>>, <<7336, 4328>>,
     <<7337, 4329>>, <<7338, 4330>>, <<7339, 4331>>, <<7340, 4332>>,
     <<7341, 4333>>, <<7342, 4334>>, <<7343, 4335>>, <<7344, 4336>>,
     <<7345, 4337>>, <<7346, 4338>>, <<7347, 4339>>, <<7348, 4340>>,
     <<7349, 4341>>, <<7350, 4342>>, <<7351, 4343>>, <<7352, 4344>>,
     <<7353, 4345>>, <<7354, 4346>>, <<7357, 4349>>, <<7358, 4350>>,
     <<7359, 4351>>, <<7680, 7681>>, <<7682, 7683>>, <<7684, 7685>>,
     <<7686, 7687>>, <<7688, 7689>>, <<7690, 7691>>, <<7692, 7693>>,
     <<7694, 7695>>, <<7696, 7697>>, <<7698, 7699>>, <<7700, 7701>>,
     <<7702, 7703>>, <<7704, 7705>>, <<7706, 7707>>, <<7708, 7709>>,
     <<7710, 7711>>, <<7712, 7713>>, <<7714, 7715>>, <<7716, 7717>>,
     <<7718, 7719>>, <<7720, 7721>>, <<7722, 7723>>, <<7724, 7725>>,
     <<7726, 7727>>, <<7728, 7729>>, <<7730, 7731>>, <<7732, 7733>>,
     <<7734, 7735>>, <<7736, 7737>>, <<7738, 7739>>, <<7740, 7741>>,
     <<7742, 7743>>, <<7744, 7745>>, <<7746, 7747>>, <<7748, 7749>>,
     <<7750, 7751>>, <<7752, 7753>>, <<7754, 7755>>, <<7756, 7757>>,
     <<7758, 7759>>, <<7760, 7761>>, <<7762, 7763>>, <<7764, 7765>>,
     <<7766, 7767>>, <<7768, 7769>>, <<7770, 7771>>, <<7772, 7773>>,
     <<7774, 7775>>, <<7776, 7777>>, <<7778, 7779>>, <<7780, 7781>>,
     <<7782, 7783>>, <<7784, 7785>>, <<7786, 7787>>, <<7788, 7789>>,
     <<7790, 7791>>, <<7792, 7793>>, <<7794, 7795>>, <<7796, 7797>>,
     <<7798, 7799>>, <<7800, 7801>>, <<7802, 7803>>, <<7804, 7805>>,
     <<7806, 7807>>, <<7808, 7809>>, <<7810, 7811>>, <<7812, 7813>>,
     <<7814, 7815>>, <<7816, 7817>>, <<7818, 7819>>, <<7820, 7821>>,
     <<7822, 7823>>, <<7824, 7825>>, <<7826, 7827>>, <<7828, 7829>>,
     <<7838, 223>>, <<7840, 7841>>, <<7842, 7843>>, <<7844, 7845>>,
     <<7846, 7847>>, <<7848, 7849>>, <<7850, 7851>>, <<7852, 7853>>,
     <<7854, 7855>>, <<7856, 7857>>, <<7858, 7859>>, <<7860, 7861>>,
     <<7862, 7863>>, <<7864, 7865>>, <<7866, 7867>>, <<7868, 7869>>,
     <<7870, 7871>>, <<7872, 7873>>, <<7874, 7875>>, <<7876, 7877>>,
     <<7878, 7879>>, <<7880, 7881>>, <<7882, 7883>>, <<7884, 7885>>,
     <<7886, 7887>>, <<7888, 7889>>, <<7890, 7891>>, <<7892, 7893>>,
     <<7894, 7895>>, <<7896, 7897>>, <<7898, 7899>>, <<7900, 7901>>,
     <<7902, 7903>>, <<7904, 7905>>, <<7906, 7907>>, <<7908, 7909>>,
     <<7910, 7911>>, <<7912, 7913>>, <<7914, 7915>>, <<7916, 7917>>,
     <<7918, 7919>>, <<7920, 7921>>, <<7922, 7923>>, <<7924, 7925>>,
     <<7926, 7927>>, <<7928, 7929>>, <<7930, 7931>>, <<7932, 7933>>,
     <<7934, 7935>>, <<7944, 7936>>, <<7945, 7937>>, <<7946, 7938>>,
     <<7947, 7939>>, <<7948, 7940>>, <<7949, 7941>>, <<7950, 7942>>,
     <<7951, 7943>>, <<7960, 7952>>, <<7961, 7953>>, <<7962, 7954>>,
     <<7963, 7955>>, <<7964, 7956>>, <<7965, 7957>>, <<7976, 7968>>,
     <<7977, 7969>>, <<7978, 7970>>, <<7979, 7971>>, <<7980, 7972>>,
     <<7981, 7973>>, <<7982, 7974>>, <<7983, 7975>>, <<7992, 7984>>,
     <<7993, 7985>>, <<7994, 7986>>, <<7995, 7987>>, <<7996, 7988>>,
     <<7997, 7989>>, <<7998, 7990>>, <<7999, 7991>>, <<8008, 8000>>,
     <<8009, 8001>>, <<8010, 8002>>, <<8011, 8003>>, <<8012, 8004>>,
     <<8013, 8005>>, <<8025, 8017>>, <<8027, 8019>>, <<8029, 8021>>,
     <<8031, 8023>>, <<8040, 8032>>, <<8041, 8033>>, <<8042, 8034>>,
     <<8043, 8035>>, <<8044, 8036>>, <<8045, 8037>>, <<8046, 8038>>,
     <<8047, 8039>>, <<8072, 8064>>, <<8073, 8065>>, <<8074, 8066>>,
     <<8075, 8067>>, <<8076, 8068>>, <<8077, 8069>>, <<8078, 8070>>,
     <<8079, 8071>>, <<8088, 8080>>, <<8089, 8081>>, <<8090, 8082>>,
     <<8091, 8083>>, <<8092, 8084>>, <<8093, 8085>>, <<8094, 8086>>,
     <<8095, 8087>>, <<8104, 8096>>, <<8105, 8097>>, <<8106, 8098>>,
     <<8107, 8099>>, <<8108, 8100>>, <<8109, 8101>>, <<8110, 8102>>,
     <<8111, 8103>>, <<8120, 8112>>, <<8121, 8113>>, <<8122, 8048>>,
     <<8123, 8049>>, <<8124, 8115>>, <<8136, 8050>>, <<8137, 8051>>,
     <<8138, 8052>>, <<8139, 8053>>, <<8140, 8131>>, <<8152, 8144>>,
     <<8153, 8145>>, <<8154, 8054>>, <<8155, 8055>>, <<8168, 8160>>,
     <<8169, 8161>>, <<8170, 8058>>, <<8171, 8059>>, <<8172, 8165>>,
     <<8184, 8056>>, <<8185, 8057>>, <<8186, 8060>>, <<8187, 8061>>,
     <<8188, 8179>>, <<8486, 969>>, <<8490, 107>>, <<8491, 229>>,
     <<8498, 8526>>, <<8544, 8560>>, <<8545, 8561>>, <<8546, 8562>>,
     <<8547, 8563>>, <<8548, 8564>>, <<8549, 8565>>, <<8550, 8566>>,
     <<8551, 8567>>, <<8552, 8568>>, <<8553, 8569>>, <<8554, 8570>>,
     <<8555, 8571>>, <<8556, 8572>>, <<8557, 8573>>, <<8558, 8574>>,
     <<8559, 8575>>, <<8579, 8580>>, <<9398, 9424>>, <<9399, 9425>>,
     <<9400, 9426>>, <<9401, 9427>>, <<9402, 9428>>, <<9403, 9429>>,
     <<9404, 9430>>, <<9405, 9431>>, <<9406, 9432>>, <<9407, 9433>>,
     <<9408, 9434>>, <<9409, 9435>>, <<9410, 9436>>, <<9411, 9437>>,
     <<9412, 9438>>, <<9413, 9439>>, <<9414, 9440>>, <<9415, 9441>>,
     <<9416, 9442>>, <<9417, 9443>>, <<9418, 9444>>, <<9419, 9445>>,
     <<9420, 9446>>, <<9421, 9447>>, <<9422, 9448>>, <<9423, 9449>>,
     <<11264, 11312>>, <<11265, 11313>>, <<11266, 11314>>, <<11267, 11315>>,
     <<11268, 11316>>, <<11269, 11317>>, <<11270, 11318>>, <<11271, 11319>>,
     <<11272, 11320>>, <<11273, 11321>>, <<11274, 11322>>, <<11275, 11323>>,
     <<11276, 11324>>, <<11277, 11325>>, <<11278, 11326>>, <<11279, 11327>>,
     <<11280, 11328>>, <<11281, 11329>>, <<11282, 11330>>, <<11283, 11331>>,
     <<11284, 11332>>, <<11285, 11333>>, <<11286, 11334>>, <<11287, 11335>>,
     <<11288, 11336>>, <<11289, 11337>>, <<11290, 11338>>, <<11291, 11339>>,
     <<11292, 11340>>, <<11293, 11341>>, <<11294, 11342>>, <<11295, 11343>>,
     <<11296, 11344>>, <<11297, 11345>>, <<11298, 11346>>, <<11299, 11347>>,
     <<11300, 11348>>, <<11301, 11349>>, <<11302, 11350>>, <<11303, 11351>>,
     <<11304, 11352>>, <<11305, 11353>>, <<11306, 11354>>, <<11307, 11355>>,
     <<11308, 11356>>, <<11309, 11357>>, <<11310, 11358>>, <<11311, 11359>>,
     <<11360, 11361>>, <<11362, 619>>, <<11363, 7549>>, <<11364, 637>>,
     <<11367, 11368>>, <<11369, 11370>>, <<11371, 11372>>, <<11373, 593>>,
     <<11374, 625>>, <<11375, 592>>, <<11376, 594>>, <<11378, 11379>>,
     <<11381, 11382>>, <<11390, 575>>, <<11391, 576>>, <<11392, 11393>>,
     <<11394, 11395>>, <<11396, 11397>>, <<11398, 11399>>, <<11400, 11401>>,
     <<11402, 11403>>, <<11404, 11405>>, <<11406, 11407>>, <<11408, 11409>>,
     <<11410, 11411>>, <<11412, 11413>>, <<11414, 11415>>, <<11416, 11417>>,
     <<11418, 11419>>, <<11420, 11421>>, <<11422, 11423>>, <<11424, 11425>>,
     <<11426, 11427>>, <<11428, 11429>>, <<11430, 11431>>, <<11432, 11433>>,
     <<11434, 11435>>, <<11436, 11437>>, <<11438, 11439>>, <<11440, 11441>>,
     <<11442, 11443>>, <<11444, 11445>>, <<11446, 11447>>, <<11448, 11449>>,
     <<11450, 11451>>, <<11452, 11453>>, <<11454, 11455>>, <<11456, 11457>>,
     <<11458, 11459>>, <<11460, 11461>>, <<11462, 11463>>, <<11464, 11465>>,
     <<11466, 11467>>, <<11468, 11469>>, <<11470, 11471>>, <<11472, 11473>>,
     <<11474, 11475>>, <<11476, 11477>>, <<11478, 11479>>, <<11480, 11481>>,
     <<11482, 11483>>, <<11484, 11485>>, <<11486, 11487>>, <<11488, 11489>>,
     <<11490, 11491>>, <<11499, 11500>>, <<11501, 11502>>, <<11506, 11507>>,
     <<42560, 42561>>, <<42562, 42563>>, <<42564, 42565>>, <<42566, 42567>>,
     <<42568, 42569>>, <<42570, 42571>>, <<42572, 42573>>, <<42574, 42575>>,
     <<42576, 42577>>, <<42578, 42579>>, <<42580, 42581>>, <<42582, 42583>>,
     <<42584, 42585>>, <<42586, 42587>>, <<42588, 42589>>, <<42590, 42591>>,
     <<42592, 42593>>, <<42594, 42595>>, <<42596, 42597>>, <<42598, 42599>>,
     <<42600, 42601>>, <<42602, 42603>>, <<42604, 42605>>, <<42624, 42625>>,
     <<42626, 42627>>, <<42628, 42629>>, <<42630, 42631>>, <<42632, 42633>>,
     <<42634, 42635>>, <<42636, 42637>>, <<42638, 42639>>, <<42640, 42641>>,
     <<42642, 42643>>, <<42644, 42645>>, <<42646, 42647>>, <<42648, 42649>>,
     <<42650, 42651>>, <<42786, 42787>>, <<42788, 42789>>, <<42790, 42791>>,
     <<42792, 42793>>, <<42794, 42795>>, <<42796, 42797>>, <<42798, 42799>>,
     <<42802, 42803>>, <<42804, 42805>>, <<42806, 42807>>, <<42808, 42809>>,
     <<42810, 42811>>, <<42812, 42813>>, <<42814, 42815>>, <<42816, 42817>>,
     <<42818, 42819>>, <<42820, 42821>>, <<42822, 42823>>, <<42824, 42825>>,
     <<42826, 42827>>, <<42828, 42829>>, <<42830, 42831>>, <<42832, 42833>>,
     <<42834, 42835>>, <<42836, 42837>>, <<42838, 42839>>, <<42840, 42841>>,
     <<42842, 42843>>, <<42844, 42845>>, <<42846, 42847>>, <<42848, 42849>>,
     <<42850, 42851>>, <<42852, 42853>>, <<42854, 42855>>, <<42856, 42857>>,
     <<42858, 42859>>, <<42860, 42861>>, <<42862, 42863>>, <<42873, 42874>>,
     <<42875, 42876>>, <<42877, 7545>>, <<42878, 42879>>, <<42880, 42881>>,
     <<42882, 42883>>, <<42884, 42885>>, <<42886, 42887>>, <<42891, 42892>>,
     <<42893, 613>>, <<42896, 42897>>, <<42898, 42899>>, <<42902, 42903>>,
     <<42904, 42905>>, <<42906, 42907>>, <<42908, 42909>>, <<42910, 42911>>,
     <<42912, 42913>>, <<42914, 42915>>, <<42916, 42917>>, <<42918, 42919>>,
     <<42920, 42921>>, <<42922, 614>>, <<42923, 604>>, <<42924, 609>>,
     <<42925, 620>>, <<42926, 618>>, <<42928, 670>>, <<42929, 647>>,
     <<42930, 669>>, <<42931, 43859>>, <<42932, 42933>>, <<42934, 42935>>,
     <<42936, 42937>>, <<42938, 42939>>, <<42940, 42941>>, <<42942, 42943>>,
     <<42944, 42945>>, <<42946, 42947>>, <<42948, 42900>>, <<42949, 642>>,
     <<42950, 7566>>, <<42951, 42952>>, <<42953, 42954>>, <<42960, 42961>>,
     <<42966, 42967>>, <<42968, 42969>>, <<42997, 42998>>, <<65313, 65345>>,
     <<65314, 65346>>, <<65315, 65347>>, <<65316, 65348>>, <<65317, 65349>>,
     <<65318, 65350>>, <<65319, 65351>>, <<65320, 65352>>, <<65321, 65353>>,
     <<65322, 65354>>, <<65323, 65355>>, <<65324, 65356>>, <<65325, 65357>>,
     <<65326, 65358>>, <<65327, 65359>>, <<65328, 65360>>, <<65329, 65361>>,
     <<65330, 65362>>, <<65331, 65363>>, <<65332, 65364>>, <<65333, 65365>>,
     <<65334, 65366>>, <<65335, 65367>>, <<65336, 65368>>, <<65337, 65369>>,
     <<65338, 65370>>, <<66560, 66600>>, <<66561, 66601>>, <<66562, 66602>>,
     <<66563, 66603>>, <<66564, 66604>>, <<66565, 66605>>, <<66566, 66606>>,
     <<66567, 66607>>, <<66568, 66608>>, <<66569, 66609>>, <<66570, 66610>>,
     <<66571, 66611>>, <<66572, 66612>>, <<66573, 66613>>, <<66574, 66614>>,
     <<66575, 66615>>, <<66576, 66616>>, <<66577, 66617>>, <<66578, 66618>>,
     <<66579, 66619>>, <<66580, 66620>>, <<66581, 66621>>, <<66582, 66622>>,
     <<66583, 66623>>, <<66584, 66624>>, <<66585, 66625>>, <<66586, 66626>>,
     <<66587, 66627>>, <<66588, 66628>>, <<66589, 66629>>, <<66590, 66630>>,
     <<66591, 66631>>, <<66592, 66632>>, <<66593, 66633>>, <<66594, 66634>>,
     <<66595, 66635>>, <<66596, 66636>>, <<66597, 66637>>, <<66598, 66638>>,
     <<66599, 66639>>, <<66736, 66776>>, <<66737, 66777>>, <<66738, 66778>>,
     <<66739, 66779>>, <<66740, 66780>>, <<66741, 66781>>, <<66742, 66782>>,
     <<66743, 66783>>, <<66744, 66784>>, <<66745, 66785>>, <<66746, 66786>>,
     <<66747, 66787>>, <<66748, 66788>>, <<66749, 66789>>, <<66750, 66790>>,
     <<66751, 66791>>, <<66752, 66792>>, <<66753, 66793>>, <<66754, 66794>>,
     <<66755, 66795>>, <<66756, 66796>>, <<66757, 66797>>, <<66758, 66798>>,
     <<66759, 66799>>, <<66760, 66800>>, <<66761, 66801>>, <<66762, 66802>>,
     <<66763, 66803>>, <<66764, 66804>>, <<66765, 66805>>, <<66766, 66806>>,
     <<66767, 66807>>, <<66768, 66808>>, <<66769, 66809>>, <<66770, 66810>>,
     <<66771, 66811>>, <<66928, 66967>>, <<66929, 66968>>, <<66930, 66969>>,
     <<66931, 66970>>, <<66932, 66971>>, <<66933, 66972>>, <<66934, 66973>>,
     <<66935, 66974>>, <<66936, 66975>>, <<66937, 66976>>, <<66938, 66977>>,
     <<66940, 66979>>, <<66941, 66980>>, <<66942, 66981>>, <<66943, 66982>>,
     <<66944, 66983>>, <<66945, 66984>>, <<66946, 66985>>, <<66947, 66986>>,
     <<66948, 66987>>, <<66949, 66988>>, <<66950, 66989>>, <<66951, 66990>>,
     <<66952, 66991>>, <<66953, 66992>>, <<66954, 66993>>, <<66956, 66995>>,
     <<66957, 66996>>, <<66958, 66997>>, <<66959, 66998>>, <<66960, 66999>>,
     <<66961, 67000>>, <<66962, 67001>>, <<66964, 67003>>, <<66965, 67004>>,
     <<68736, 68800>>, <<68737, 68801>>, <<68738, 68802>>, <<68739, 68803>>,
     <<68740, 68804>>, <<68741, 68805>>, <<68742, 68806>>, <<68743, 68807>>,
     <<68744, 68808>>, <<68745, 68809>>, <<68746, 68810>>, <<68747, 68811>>,
     <<68748, 68812>>, <<68749, 68813>>, <<68750, 68814>>, <<68751, 68815>>,
     <<68752, 68816>>, <<68753, 68817>>, <<68754, 68818>>, <<68755, 68819>>,
     <<68756, 68820>>, <<68757, 68821>>, <<68758, 68822>>, <<68759, 68823>>,
     <<68760, 68824>>, <<68761, 68825>>, <<68762, 68826>>, <<68763, 68827>>,
     <<68764, 68828>>, <<68765, 68829>>, <<68766, 68830>>, <<68767, 68831>>,
     <<68768, 68832>>, <<68769, 68833>>, <<68770, 68834>>, <<68771, 68835>>,
     <<68772, 68836>>, <<68773, 68837>>, <<68774, 68838>>, <<68775, 68839>>,
     <<68776, 68840>>, <<68777, 68841>>, <<68778, 68842>>, <<68779, 68843>>,
     <<68780, 68844>>, <<68781, 68845>>, <<68782, 68846>>, <<68783, 68847>>,
     <<68784, 68848>>, <<68785, 68849>>, <<68786, 68850>>, <<71840, 71872>>,
     <<71841, 71873>>, <<71842, 71874>>, <<71843, 71875>>, <<71844, 71876>>,
     <<71845, 71877>>, <<71846, 71878>>, <<71847, 71879>>, <<71848, 71880>>,
     <<71849, 71881>>, <<71850, 71882>>, <<71851, 71883>>, <<71852, 71884>>,
     <<71853, 71885>>, <<71854, 71886>>, <<71855, 71887>>, <<71856, 71888>>,
     <<71857, 71889>>, <<71858, 71890>>, <<71859, 71891>>, <<71860, 71892>>,
     <<71861, 71893>>, <<71862, 71894>>, <<71863, 71895>>, <<71864, 71896>>,
     <<71865, 71897>>, <<71866, 71898>>, <<71867, 71899>>, <<71868, 71900>>,
     <<71869, 71901>>, <<71870, 71902>>, <<71871, 71903>>, <<93760, 93792>>,
     <<93761, 93793>>, <<93762, 93794>>, <<93763, 93795>>, <<93764, 93796>>,
     <<93765, 93797>>, <<93766, 93798>>, <<93767, 93799>>, <<93768, 93800>>,
     <<93769, 93801>>, <<93770, 93802>>, <<93771, 93803>>, <<93772, 93804>>,
     <<93773, 93805>>, <<93774, 93806>>, <<93775, 93807>>, <<93776, 93808>>,
     <<93777, 93809>>, <<93778, 93810>>, <<93779, 93811>>, <<93780, 93812>>,
     <<93781, 93813>>, <<93782, 93814>>, <<93783, 93815>>, <<93784, 93816>>,
     <<93785, 93817>>, <<93786, 93818>>, <<93787, 93819>>, <<93788, 93820>>,
     <<93789, 93821>>, <<93790, 93822>>, <<93791, 93823>>,
     <<125184, 125218>>, <<125185, 125219>>, <<125186, 125220>>,
     <<125187, 125221>>, <<125188, 125222>>, <<125189, 125223>>,
     <<125190, 125224>>, <<125191, 125225>>, <<125192, 125226>>,
     <<125193, 125227>>, <<125194, 125228>>, <<125195, 125229>>,
     <<125196, 125230>>, <<125197, 125231>>, <<125198, 125232>>,
     <<125199, 125233>>, <<125200, 125234>>, <<125201, 125235>>,
     <<125202, 125236>>, <<125203, 125237>>, <<125204, 125238>>,
     <<125205, 125239>>, <<125206, 125240>>, <<125207, 125241>>,
     <<125208, 125242>>, <<125209, 125243>>, <<125210, 125244>>,
     <<125211, 125245>>, <<125212, 125246>>, <<125213, 125247>>,
     <<125214, 125248>>, <<125215, 125249>>, <<125216, 125250>>,
     <<125217, 125251>>
    >>

\* The code points str.lower takes for cased and not case-ignorable, and the
\* ones it takes for case-ignorable, when it looks around a capital sigma.
Cased(c) ==
    c \in UNION {
           65..90, 97..122, 170..170, 181..181, 186..186, 192..214, 216..246,
           248..442, 444..447, 452..659, 661..687, 880..883, 886..887,
           891..893, 895..895, 902..902, 904..906, 908..908, 910..929,
           931..1013, 1015..1153, 1162..1327, 1329..1366, 1376..1416,
           4256..4293, 4295..4295, 4301..4301, 4304..4346, 4349..4351,
           5024..5109, 5112..5117, 7296..7304, 7312..7354, 7357..7359,
           7424..7467, 7531..7543, 7545..7578, 7680..7957, 7960..7965,
           7968..8005, 8008..8013, 8016..8023, 8025..8025, 8027..8027,
           8029..8029, 8031..8061, 8064..8116, 8118..8124, 8126..8126,
           8130..8132, 8134..8140, 8144..8147, 8150..8155, 8160..8172,
           8178..8180, 8182..8188, 8450..8450, 8455..8455, 8458..8467,
           8469..8469, 8473..8477, 8484..8484, 8486..8486, 8488..8488,
           8490..8493, 8495..8500, 8505..8505, 8508..8511, 8517..8521,
           8526..8526, 8544..8575, 8579..8580, 9398..9449, 11264..11387,
           11390..11492, 11499..11502, 11506..11507, 11520..11557,
           11559..11559, 11565..11565, 42560..42605, 42624..42651,
           42786..42863, 42865..42887, 42891..42894, 42896..42954,
           42960..42961, 42963..42963, 42965..42969, 42997..42998,
           43002..43002, 43824..43866, 43872..43880, 43888..43967,
           64256..64262, 64275..64279, 65313..65338, 65345..65370,
           66560..66639, 66736..66771, 66776..66811, 66928..66938,
           66940..66954, 66956..66962, 66964..66965, 66967..66977,
           66979..66993, 66995..67001, 67003..67004, 68736..68786,
           68800..68850, 71840..71903, 93760..93823, 119808..119892,
           119894..119964, 119966..119967, 119970..119970, 119973..119974,
           119977..119980, 119982..119993, 119995..119995, 119997..120003,
           120005..120069, 120071..120074, 120077..120084, 120086..120092,
           120094..120121, 120123..120126, 120128..120132, 120134..120134,
           120138..120144, 120146..120485, 120488..120512, 120514..120538,
           120540..120570, 120572..120596, 120598..120628, 120630..120654,
           120656..120686, 120688..120712, 120714..120744, 120746..120770,
           120772..120779, 122624..122633, 122635..122654, 125184..125251,
           127280..127305, 127312..127337, 127344..127369
    }

CaseIgnorable(c) ==
    c \in UNION {
           39..39, 46..46, 58..58, 94..94, 96..96, 168..168, 173..173,
           175..175, 180..180, 183..184, 688..879, 884..885, 890..890,
           900..901, 903..903, 1155..1161, 1369..1369, 1375..1375,
           1425..1469, 1471..1471, 1473..1474, 1476..1477, 1479..1479,
           1524..1524, 1536..1541, 1552..1562, 1564..1564, 1600..1600,
           1611..1631, 1648..1648, 1750..1757, 1759..1768, 1770..1773,
           1807..1807, 1809..1809, 1840..1866, 1958..1968, 2027..2037,
           2042..2042, 2045..2045, 2070..2093, 2137..2139, 2184..2184,
           2192..2193, 2200..2207, 2249..2306, 2362..2362, 2364..2364,
           2369..2376, 2381..2381, 2385..2391, 2402..2403, 2417..2417,
           2433..2433, 2492..2492, 2497..2500, 2509..2509, 2530..2531,
           2558..2558, 2561..2562, 2620..2620, 2625..2626, 2631..2632,
           2635..2637, 2641..2641, 2672..2673, 2677..2677, 2689..2690,
           2748..2748, 2753..2757, 2759..2760, 2765..2765, 2786..2787,
           2810..2815, 2817..2817, 2876..2876, 2879..2879, 2881..2884,
           2893..2893, 2901..2902, 2914..2915, 2946..2946, 3008..3008,
           3021..3021, 3072..3072, 3076..3076, 3132..3132, 3134..3136,
           3142..3144, 3146..3149, 3157..3158, 3170..3171, 3201..3201,
           3260..3260, 3263..3263, 3270..3270, 3276..3277, 3298..3299,
           3328..3329, 3387..3388, 3393..3396, 3405..3405, 3426..3427,
           3457..3457, 3530..3530, 3538..3540, 3542..3542, 3633..3633,
           3636..3642, 3654..3662, 3761..3761, 3764..3772, 3782..3782,
           3784..3789, 3864..3865, 3893..3893, 3895..3895, 3897..3897,
           3953..3966, 3968..3972, 3974..3975, 3981..3991, 3993..4028,
           4038..4038, 4141..4144, 4146..4151, 4153..4154, 4157..4158,
           4184..4185, 4190..4192, 4209..4212, 4226..4226, 4229..4230,
           4237..4237, 4253..4253, 4348..4348, 4957..4959, 5906..5908,
           5938..5939, 5970..5971, 6002..6003, 6068..6069, 6071..6077,
           6086..6086, 6089..6099, 6103..6103, 6109..6109, 6155..6159,
           6211..6211, 6277..6278, 6313..6313, 6432..6434, 6439..6440,
           6450..6450, 6457..6459, 6679..6680, 6683..6683, 6742..6742,
           6744..6750, 6752..6752, 6754..6754, 6757..6764, 6771..6780,
           6783..6783, 6823..6823, 6832..6862, 6912..6915, 6964..6964,
           6966..6970, 6972..6972, 6978..6978, 7019..7027, 7040..7041,
           7074..7077, 7080..7081, 7083..7085, 7142..7142, 7144..7145,
           7149..7149, 7151..7153, 7212..7219, 7222..7223, 7288..7293,
           7376..7378, 7380..7392, 7394..7400, 7405..7405, 7412..7412,
           7416..7417, 7468..7530, 7544..7544, 7579..7679, 8125..8125,
           8127..8129, 8141..8143, 8157..8159, 8173..8175, 8189..8190,
           8203..8207, 8216..8217, 8228..8228, 8231..8231, 8234..8238,
           8288..8292, 8294..8303, 8305..8305, 8319..8319, 8336..8348,
           8400..8432, 11388..11389, 11503..11505, 11631..11631,
           11647..11647, 11744..11775, 11823..11823, 12293..12293,
           12330..12333, 12337..12341, 12347..12347, 12441..12446,
           12540..12542, 40981..40981, 42232..42237, 42508..42508,
           42607..42610, 42612..42621, 42623..42623, 42652..42655,
           42736..42737, 42752..42785, 42864..42864, 42888..42890,
           42994..42996, 43000..43001, 43010..43010, 43014..43014,
           43019..43019, 43045..43046, 43052..43052, 43204..43205,
           43232..43249, 43263..43263, 43302..43309, 43335..43345,
           43392..43394, 43443..43443, 43446..43449, 43452..43453,
           43471..43471, 43493..43494, 43561..43566, 43569..43570,
           43573..43574, 43587..43587, 43596..43596, 43632..43632,
           43644..43644, 43696..43696, 43698..43700, 43703..43704,
           43710..43711, 43713..43713, 43741..43741, 43756..43757,
           43763..43764, 43766..43766, 43867..43871, 43881..43883,
           44005..44005, 44008..44008, 44013..44013, 64286..64286,
           64434..64450, 65024..65039, 65043..65043, 65056..65071,
           65106..65106, 65109..65109, 65279..65279, 65287..65287,
           65294..65294, 65306..65306, 65342..65342, 65344..65344,
           65392..65392, 65438..65439, 65507..65507, 65529..65531,
           66045..66045, 66272..66272, 66422..66426, 67456..67461,
           67463..67504, 67506..67514, 68097..68099, 68101..68102,
           68108..68111, 68152..68154, 68159..68159, 68325..68326,
           68900..68903, 69291..69292, 69446..69456, 69506..69509,
           69633..69633, 69688..69702, 69744..69744, 69747..69748,
           69759..69761, 69811..69814, 69817..69818, 69821..69821,
           69826..69826, 69837..69837, 69888..69890, 69927..69931,
           69933..69940, 70003..70003, 70016..70017, 70070..70078,
           70089..70092, 70095..70095, 70191..70193, 70196..70196,
           70198..70199, 70206..70206, 70367..70367, 70371..70378,
           70400..70401, 70459..70460, 70464..70464, 70502..70508,
           70512..70516, 70712..70719, 70722..70724, 70726..70726,
           70750..70750, 70835..70840, 70842..70842, 70847..70848,
           70850..70851, 71090..71093, 71100..71101, 71103..71104,
           71132..71133, 71219..71226, 71229..71229, 71231..71232,
           71339..71339, 71341..71341, 71344..71349, 71351..71351,
           71453..71455, 71458..71461, 71463..71467, 71727..71735,
           71737..71738, 71995..71996, 71998..71998, 72003..72003,
           72148..72151, 72154..72155, 72160..72160, 72193..72202,
           72243..72248, 72251..72254, 72263..72263, 72273..72278,
           72281..72283, 72330..72342, 72344..72345, 72752..72758,
           72760..72765, 72767..72767, 72850..72871, 72874..72880,
           72882..72883, 72885..72886, 73009..73014, 73018..73018,
           73020..73021, 73023..73029, 73031..73031, 73104..73105,
           73109..73109, 73111..73111, 73459..73460, 78896..78904,
           92912..92916, 92976..92982, 92992..92995, 94031..94031,
           94095..94111, 94176..94177, 94179..94180, 110576..110579,
           110581..110587, 110589..110590, 113821..113822, 113824..113827,
           118528..118573, 118576..118598, 119143..119145, 119155..119170,
           119173..119179, 119210..119213, 119362..119364, 121344..121398,
           121403..121452, 121461..121461, 121476..121476, 121499..121503,
           121505..121519, 122880..122886, 122888..122904, 122907..122913,
           122915..122916, 122918..122922, 123184..123197, 123566..123566,
           123628..123631, 125136..125142, 125252..125259, 127995..127999,
           917505..917505, 917536..917631, 917760..917999
    }

\* the nearest code point that is not case-ignorable, before and after, is cased
RECURSIVE CasedBefore(_, _)
CasedBefore(s, j) ==
    IF j < 1 THEN FALSE
    ELSE IF CaseIgnorable(s[j]) THEN CasedBefore(s, j - 1)
    ELSE Cased(s[j])

RECURSIVE CasedAfter(_, _)
CasedAfter(s, j) ==
    IF j > Len(s) THEN FALSE
    ELSE IF CaseIgnorable(s[j]) THEN CasedAfter(s, j + 1)
    ELSE Cased(s[j])

\* a capital sigma at position i ends a word
FinalSigma(s, i) == CasedBefore(s, i - 1) /\ ~CasedAfter(s, i + 1)

\* the lowercase of the code point at position i, a sequence
LowerChar(s, i) ==
    LET c == s[i]
    IN  IF c < 128 THEN <<IF 65 <= c /\ c <= 90 THEN c + 32 ELSE c>>
        ELSE IF c = 931 THEN <<IF FinalSigma(s, i) THEN 962 ELSE 963>>
        ELSE IF c = 304 THEN <<105, 775>>
        ELSE IF \E k \in DOMAIN LowerPairs : LowerPairs[k][1] = c
             THEN <<LowerPairs[CHOOSE k \in DOMAIN LowerPairs : LowerPairs[k][1] = c][2]>>
        ELSE <<c>>

RECURSIVE LowerFrom(_, _)
LowerFrom(s, i) ==
    IF i > Len(s) THEN <<>> ELSE LowerChar(s, i) \o LowerFrom(s, i + 1)

Lower(s) == LowerFrom(s, 1)

(***************************************************************************)
(* str.strip, str.__contains__, str.startswith.                            *)
(***************************************************************************)
\* the code points str.strip() removes: those with str.isspace()
Whitespace ==
    UNION {
           9..13, 28..32, 133..133, 160..160, 5760..5760, 8192..8202,
           8232..8233, 8239..8239, 8287..8287, 12288..12288
    }

RECURSIVE LStrip(_, _)
LStrip(s, chars) ==
    IF s # <<>> /\ s[1] \in chars
    THEN LStrip(SubSeq(s, 2, Len(s)), chars)
    ELSE s

RECURSIVE RStrip(_, _)
RStrip(s, chars) ==
    IF s # <<>> /\ s[Len(s)] \in chars
    THEN RStrip(SubSeq(s, 1, Len(s) - 1), chars)
    ELSE s

Strip(s, chars) == RStrip(LStrip(s, chars), chars)

\* p in s
Contains(p, s) ==
    \E i \in 1..(Len(s) - Len(p) + 1) : SubSeq(s, i, i + Len(p) - 1) = p

StartsWith(s, p) == Len(p) <= Len(s) /\ SubSeq(s, 1, Len(p)) = p

(***************************************************************************)
(* map_yes_no: the decoded outcome, or the exception raised.               *)
(***************************************************************************)
Returns(v) == [raised |-> "none", value |-> v]
Raises(e) == [raised |-> e, value |-> -1]

\* the string literals of lines 9 and 11
yes == Str("yes")
no == Str("no")

map_yes_no(s) ==
    LET l == Lower(s)
    IN  IF l = yes THEN Returns(1)
        ELSE IF l = no THEN Returns(0)
        ELSE Raises("ValueError")

(***************************************************************************)
(* rename: the ingredient normalizer.                                      *)
(***************************************************************************)
\* the string literals of lines 18-41
lit ==
    [aloe |-> Str("aloe"),
     aloe_vera |-> Str("aloe vera"),
     avena_sativa |-> Str("avena sativa"),
     capry |-> Str("capry"),
     lycol |-> Str("lycol"),
     caprylyl_lycol |-> Str("caprylyl lycol"),
     propylene |-> Str("propylene"),
     propylene_gylcol |-> Str("propylene gylcol"),
     butyrospermum |-> Str("butyrospermum"),
     shea_butter |-> Str("shea butter"),
     tocopherol |-> Str("tocopherol"),
     tocopherols |-> Str("tocopherols"),
     polysorbate |-> Str("polysorbate"),
     jojoba |-> Str("jojoba"),
     fragrance |-> Str("fragrance"),
     decyl_glucoside |-> Str("decyl glucoside"),
     ce |-> Str("ce"),
     alcohol |-> Str("alcohol"),
     cetyl_alcohol |-> Str("cetyl alcohol"),
     cocos_nucifera |-> Str("cocos nucifera")]

\* the characters of the argument of strip('.')
Period == {Ord["."]}

Preprocess(ingredient) == Strip(Strip(Lower(ingredient), Whitespace), Period)

\* a faulty rename: the fragrance rule tried first, rules 3 and 4 exchanged
RenameFragranceFirst(ingredient) ==
    LET s == Preprocess(ingredient)
    IN  IF Contains(lit.fragrance, s) THEN lit.fragrance
        ELSE IF Contains(lit.aloe, s) THEN lit.aloe_vera
        ELSE IF Contains(lit.avena_sativa, s) THEN lit.avena_sativa
        ELSE IF Contains(lit.propylene, s) /\ Contains(lit.lycol, s) THEN lit.propylene_gylcol
        ELSE IF Contains(lit.capry, s) /\ Contains(lit.lycol, s) THEN lit.caprylyl_lycol
        ELSE IF Contains(lit.butyrospermum, s) THEN lit.shea_butter
        ELSE IF Contains(lit.tocopherol, s) THEN lit.tocopherols
        ELSE IF Contains(lit.polysorbate, s) THEN lit.polysorbate
        ELSE IF Contains(lit.jojoba, s) THEN lit.jojoba
        ELSE IF Contains(lit.decyl_glucoside, s) THEN lit.decyl_glucoside
        ELSE IF StartsWith(s, lit.ce) /\ Contains(lit.alcohol, s) THEN lit.cetyl_alcohol
        ELSE IF Contains(lit.cocos_nucifera, s) THEN lit.cocos_nucifera
        ELSE s

rename(ingredient) ==
    LET s == Preprocess(ingredient)
    IN  IF Contains(lit.aloe, s) THEN lit.aloe_vera
        ELSE IF Contains(lit.avena_sativa, s) THEN lit.avena_sativa
        ELSE IF Contains(lit.capry, s) /\ Contains(lit.lycol, s) THEN lit.caprylyl_lycol
        ELSE IF Contains(lit.propylene, s) /\ Contains(lit.lycol, s) THEN lit.propylene_gylcol
        ELSE IF Contains(lit.butyrospermum, s) THEN lit.shea_butter
        ELSE IF Contains(lit.tocopherol, s) THEN lit.tocopherols
        ELSE IF Contains(lit.polysorbate, s) THEN lit.polysorbate
        ELSE IF Contains(lit.jojoba, s) THEN lit.jojoba
        ELSE IF Contains(lit.fragrance, s) THEN lit.fragrance
        ELSE IF Contains(lit.decyl_glucoside, s) THEN lit.decyl_glucoside
        ELSE IF StartsWith(s, lit.ce) /\ Contains(lit.alcohol, s) THEN lit.cetyl_alcohol
        ELSE IF Contains(lit.cocos_nucifera, s) THEN lit.cocos_nucifera
        ELSE s

(***************************************************************************)
(* Python dicts: sequences of <<key, value>> in insertion order.           *)
(***************************************************************************)
HasKey(d, key) == \E k \in DOMAIN d : d[k][1] = key

\* d[key], for a key of d
Get(d, key) == d[CHOOSE k \in DOMAIN d : d[k][1] = key][2]

\* d[key] = value: an existing key keeps its position
Put(d, key, value) ==
    IF HasKey(d, key)
    THEN LET k == CHOOSE j \in DOMAIN d : d[j][1] = key
         IN  SubSeq(d, 1, k - 1) \o <<<<key, value>>>> \o SubSeq(d, k + 1, Len(d))
    ELSE Append(d, <<key, value>>)

(***************************************************************************)
(* The static category table, in definition order.                         *)
(***************************************************************************)
group_to_ingredients ==
  <<
    [group |-> "Water", ingredients |-> <<
        Str("water")
    >>],
    [group |-> "Vitamins", ingredients |-> <<
        Str("panthenol"),
        Str("panthenol (vitamin b)"),
        Str("cholecalciferol (vitamin d)"),
        Str("tocopherols"),
        Str("tocopheryl acetate"),
        Str("ascorbic acid"),
        Str("sodium ascorbyl"),
        Str("magnesium ascorbyl phosphate"),
        Str("biotin")
    >>],
    [group |-> "Aloe", ingredients |-> <<
        Str("aloe vera")
    >>],
    [group |-> "Acids_and_Salts", ingredients |-> <<
        Str("lactic acid"),
        Str("sodium lactate"),
        Str("pca"),
        Str("sodium pca"),
        Str("citric acid"),
        Str("glycolic acid"),
        Str("hyaluronic acid"),
        Str("sodium hyaluronate"),
        Str("linoleic acid"),
        Str("oleic acid"),
        Str("palmitic acid"),
        Str("stearic acid"),
        Str("benzoic acid"),
        Str("sodium benzoate"),
        Str("lauryl lactate"),
        Str("sodium carbonate"),
        Str("sodium hydroxide"),
        Str("ammonium chloride"),
        Str("sodium chloride"),
        Str("phosphate"),
        Str("gluconolactone"),
        Str("vinegar")
    >>],
    [group |-> "Coconut_Derivatives", ingredients |-> <<
        Str("cocos nucifera"),
        Str("sodium cocoyl glutamate (coconut source)"),
        Str("cocamidopropyl betaine"),
        Str("cocamidopropyl hydroxysultaine"),
        Str("cocamidopropyl pg-dimonium chloride"),
        Str("cocamide mipa"),
        Str("disodium cocamido mipa sulfosuccinate"),
        Str("coco glucoside"),
        Str("peg-6 caprylic/capric glycerides"),
        Str("sodium cocoyl isethionate")
    >>],
    [group |-> "Citrus_Oils", ingredients |-> <<
        Str("citrus aurantium bergamia (bergamot) fruit oil"),
        Str("citrus aurantium dulcis (orange) peel oil"),
        Str("citrus limon (lemon) peel oil"),
        Str("citrus medica limonum (lemon) peel extract"),
        Str("citrus reticulata (tangerine) leaf oil"),
        Str("orange oil"),
        Str("mandarin oil"),
        Str("terpenesandterpenoids,lemon-oil"),
        Str("limonene"),
        Str("citral"),
        Str("lime pearl fruit extract")
    >>],
    [group |-> "Lavender_Herbal_Oils", ingredients |-> <<
        Str("lavandula angustifolia (lavender) oil"),
        Str("rosmarinus officinalis (rosemary) leaf oil"),
        Str("rosemary oil")
    >>],
    [group |-> "Preservatives", ingredients |-> <<
        Str("phenoxyethanol"),
        Str("methylchloroisothiazolinone"),
        Str("methylisothiazolinone"),
        Str("benzoic acid"),
        Str("sodium benzoate"),
        Str("potassium sorbate"),
        Str("disodium dmdm hydantoin"),
        Str("caprylhydroxamic acid"),
        Str("chlorphenesin"),
        Str("ethylhexylglycerin"),
        Str("disodium edta"),
        Str("tetrasodium edta"),
        Str("tetrasodium glda"),
        Str("tetrasodium glutamate diacetate"),
        Str("trisodium ethylenediamine disuccinate"),
        Str("hydroxyacetophenone")
    >>],
    [group |-> "Cleaning_Agents", ingredients |-> <<
        Str("sodium lauryl sulfate"),
        Str("ammonium lauryl sulfate"),
        Str("sodium c14-16 olefin sulfonate"),
        Str("sodium lauroyl methyl lsethionate"),
        Str("sodium cocoyl isethionate"),
        Str("sodium methyl cocoyl taurate"),
        Str("decyl glucoside"),
        Str("sodium methyl 2-sulfolaurate"),
        Str("disodium 2-sulfolaurate"),
        Str("cocamidopropyl betaine"),
        Str("cetyl betaine"),
        Str("betaine"),
        Str("laureth-7"),
        Str("polysorbate"),
        Str("polyglyceryl-3 laurate")
    >>],
    [group |-> "Alcohols", ingredients |-> <<
        Str("cetyl alcohol"),
        Str("stearyl alcohol"),
        Str("benzyl alcohol"),
        Str("isopropyl alcohol"),
        Str("2-hexanediol"),
        Str("isopropyl palmitate"),
        Str("benzyl acetate"),
        Str("benzyl benzoate")
    >>],
    [group |-> "Emollients", ingredients |-> <<
        Str("petrolatum"),
        Str("white petrolatum"),
        Str("glycerin"),
        Str("glycerin (vegetable)"),
        Str("butylene glycol"),
        Str("propylene gylcol"),
        Str("pentylene glycol"),
        Str("caprylyl lycol"),
        Str("caprylic/capric triglyceride"),
        Str("propanediol"),
        Str("methyl glucose caprate/caprylate/oleate"),
        Str("shea butter"),
        Str("triolein"),
        Str("triethyl citrate")
    >>],
    [group |-> "Essential_Oils", ingredients |-> <<
        Str("patchouli oil"),
        Str("pogostemon cablin (patchouli) oil"),
        Str("cedarwood oil"),
        Str("cedar leaf oil"),
        Str("eucalyptus globolus (eucalyptus) leaf oil"),
        Str("mentha piperita (peppermint) oil"),
        Str("cymbopogon schoenanthus (lemongrass) oil"),
        Str("abies alba (fir) leaf oil"),
        Str("amyris oil"),
        Str("basilicum (basil) oil"),
        Str("bois de rose oil"),
        Str("cypress oil"),
        Str("salvia officinalis (sage) oil"),
        Str("olibanum oil"),
        Str("guaiacwood oil"),
        Str("gurjun balsalm oil"),
        Str("melalueca alternifolia (tea tree) leaf oil"),
        Str("menthol"),
        Str("ocimum"),
        Str("chouji yu")
    >>],
    [group |-> "Amino_Acids", ingredients |-> <<
        Str("alanine"),
        Str("arginine"),
        Str("l-arginine"),
        Str("aspartic acid"),
        Str("glycine"),
        Str("histidine"),
        Str("isoleucine"),
        Str("phenylalanine"),
        Str("proline"),
        Str("serine"),
        Str("threonine"),
        Str("valine"),
        Str("hydrolyzed pea protein"),
        Str("hydrolyzed quinoa")
    >>],
    [group |-> "Fragrance_Components", ingredients |-> <<
        Str("fragrance"),
        Str("parfum (natural)"),
        Str("linalool"),
        Str("geraniol"),
        Str("citronellol"),
        Str("hydroxycitronellal"),
        Str("linalyl acetate"),
        Str("benzyl acetate"),
        Str("benzyl benzoate"),
        Str("tetramethyl acetyloctahydronaphthalenes"),
        Str("methyl ionones"),
        Str("4-tert-butylcyclohexyl acetate"),
        Str("limonene"),
        Str("citral")
    >>],
    [group |-> "Plant_Oils", ingredients |-> <<
        Str("persea gratissima (avocado) oil"),
        Str("prunus amygdalus dulcis (sweet almond) oil"),
        Str("ricinus communis (castor) seed oil"),
        Str("carthamus tinctorius (safflower) seed oil"),
        Str("oenothera biennis (evening primrose) oil"),
        Str("glycine soja (soybean) oil"),
        Str("olea europaea (olive) fruit oil"),
        Str("elaeis guineensis (palm kernel) oil"),
        Str("oryza sativa (rice) bran oil"),
        Str("triticum vulgare (wheat) germ oil"),
        Str("vitis vinifera (grape) seed oil"),
        Str("rosa canina fruit oil"),
        Str("pequi fruit oil"),
        Str("sunflower seed oil"),
        Str("oat kernel oil"),
        Str("jojoba"),
        Str("peg-40 hydrogenated castor oil")
    >>],
    [group |-> "Thickeners_Stabilizers", ingredients |-> <<
        Str("xanthan gum"),
        Str("carbomer"),
        Str("acrylates copolymer"),
        Str("acrylates/c10-30 alkylacrylate crosspolymer"),
        Str("tara spinosa gum"),
        Str("acacia seyal gum extract"),
        Str("polyquaternium-10"),
        Str("polyquaternium-7"),
        Str("silica"),
        Str("guar hydroxypropyltrimonium chloride"),
        Str("glyceryl oleate"),
        Str("peg-150 pentaerythrityl tetrastearate"),
        Str("phytosteryl canola glycerides"),
        Str("isoceteth-20"),
        Str("stearetf-20")
    >>],
    [group |-> "Plant_Extracts", ingredients |-> <<
        Str("equisetum arvense (horsetail) extract"),
        Str("urtica dioica (nettle) extract"),
        Str("arctium lappa (burdock) root extract"),
        Str("arnica montana flower extract"),
        Str("grape seed extract"),
        Str("flax seed extract"),
        Str("baobab seed extract"),
        Str("apium graveolens (celery) seed extract"),
        Str("chamomile recutita (matricaria) flower extract"),
        Str("camellia sinensis (white tea) extract"),
        Str("brassica oleracea acephala leaf (kale) extract"),
        Str("garcinia mangostana (mangosteen) extract"),
        Str("crambe maritima leaf (blue seakale) extract"),
        Str("avena sativa")
    >>],
    [group |-> "Minerals", ingredients |-> <<
        Str("silica"),
        Str("kaolin"),
        Str("iron oxides")
    >>],
    [group |-> "Colorants", ingredients |-> <<
        Str("iron oxides"),
        Str("caramel"),
        Str("ci 60730 (ext. violet 2)"),
        Str("yellow 6"),
        Str("chlorophyllinum cupreum (chlorophyll)")
    >>],
    [group |-> "Vasodilators_Actives", ingredients |-> <<
        Str("benzyl nicotinate")
    >>],
    [group |-> "Quaternary_Ammonium_Compounds", ingredients |-> <<
        Str("behentrimonium chloride"),
        Str("distearyldimonium chloride"),
        Str("polyquaternium-7"),
        Str("polyquaternium-10"),
        Str("guar hydroxypropyltrimonium chloride")
    >>],
    [group |-> "Chelating_Agents", ingredients |-> <<
        Str("disodium edta"),
        Str("tetrasodium edta"),
        Str("tetrasodium glda"),
        Str("tetrasodium glutamate diacetate"),
        Str("trisodium ethylenediamine disuccinate")
    >>],
    [group |-> "Humectants", ingredients |-> <<
        Str("glycerin"),
        Str("glycerin (vegetable)"),
        Str("hyaluronic acid"),
        Str("sodium hyaluronate"),
        Str("propylene gylcol"),
        Str("butylene glycol"),
        Str("trehalose"),
        Str("urea"),
        Str("sodium pca"),
        Str("pca"),
        Str("allantoin")
    >>],
    [group |-> "Sugars_Carbohydrates", ingredients |-> <<
        Str("glucose"),
        Str("fructose"),
        Str("maltose"),
        Str("trehalose")
    >>],
    [group |-> "Silicones", ingredients |-> <<
        Str("peg-7 dimethicone")
    >>],
    [group |-> "UV_Filters", ingredients |-> <<
        Str("benzophenone-4")
    >>],
    [group |-> "Fatty_Acids", ingredients |-> <<
        Str("linoleic acid"),
        Str("oleic acid"),
        Str("palmitic acid"),
        Str("stearic acid")
    >>],
    [group |-> "Animal_Derivatives", ingredients |-> <<
        Str("caprae lac (goat milk)")
    >>],
    [group |-> "Ferments", ingredients |-> <<
        Str("pichia ferment lysate filtrate"),
        Str("saccharomyces/xylinum/black tea ferment")
    >>],
    [group |-> "Alkalizing_Agents", ingredients |-> <<
        Str("triethanolamine"),
        Str("sodium hydroxide"),
        Str("theobroma cacao (cocoa pod) potash")
    >>],
    [group |-> "Phospholipids", ingredients |-> <<
        Str("phospholipids"),
        Str("lecithin")
    >>]
  >>

(***************************************************************************)
(* Ingredients.ingredient_to_group: the inversion of the table.            *)
(***************************************************************************)
\* a faulty loop body: the assignment of line 107 placed under the guard
InvertStepFirstWins(d, group, ing) ==
    IF ~HasKey(d, ing) THEN Put(d, ing, group) ELSE d

\* one pass of the inner loop body, lines 105-107
InvertStep(d, group, ing) ==
    LET d1 == IF ~HasKey(d, ing) THEN Put(d, ing, <<>>) ELSE d
    IN  Put(d1, ing, group)

\* The loops of lines 103-107.  Each dict is evaluated (its length taken)
\* before the loop goes on, as Python evaluates each assignment at once.
RECURSIVE InvertIngredients(_, _, _, _)
InvertIngredients(d, group, ingredients, i) ==
    IF i > Len(ingredients) THEN d
    ELSE LET d1 == InvertStep(d, group, ingredients[i])
         IN  IF Len(d1) > 0
             THEN InvertIngredients(d1, group, ingredients, i + 1)
             ELSE d1

RECURSIVE InvertGroups(_, _)
InvertGroups(d, g) ==
    IF g > Len(group_to_ingredients) THEN d
    ELSE LET d1 == InvertIngredients(d, group_to_ingredients[g].group,
                                     group_to_ingredients[g].ingredients, 1)
         IN  IF Len(d1) >= 0 THEN InvertGroups(d1, g + 1) ELSE d1

ingredient_to_group == InvertGroups(<<>>, 1)

(***************************************************************************)
(* The input table.  A row maps each column name to a value; the Brand and *)
(* Symptoms? values are strings, an ingredient cell is a string or missing.*)
(* Brand is the table's unique key: row i holds the i-th brand name.       *)
(***************************************************************************)
Cell(s) == [isnull |-> FALSE, value |-> s]
NULL == [isnull |-> TRUE, value |-> <<>>]

\* the columns the code names: dat['Brand'], dat['Symptoms?']
Brand == Str("Brand")
Symptoms == Str("Symptoms?")

Columns == <<Brand, Symptoms, Str("Ingredient 1"), Str("INGREDIENT 2")>>

BrandNames == <<Str("Brand1"), Str("Brand2"), Str("Brand3"), Str("Brand4"), Str("Brand5")>>

SymptomValues == {Str("Yes"), Str("no"), Str("maybe")}

\* labels of two categories and a label of none
CellValues == {NULL, Cell(Str("Water")), Cell(Str("Aloe Gel")), Cell(Str("Talc"))}

\* empty cells beside a missing and a filled one
EmptyCellValues == {NULL, Cell(Str("")), Cell(Str(" .")), Cell(Str("Water"))}

\* pd.isnull
IsNull(cell) == cell.isnull

\* Ingredients.ingredient_cols
ingredient_cols ==
    LET ingredient == Str("ingredient")
    IN  SelectSeq(Columns, LAMBDA c : Contains(ingredient, Lower(c)))

Row(brand, symptoms, cells) ==
    [c \in {Columns[k] : k \in DOMAIN Columns} |->
        IF c = Brand THEN brand
        ELSE IF c = Symptoms THEN symptoms
        ELSE cells[c]]

IngredientColumnSet == {ingredient_cols[k] : k \in DOMAIN ingredient_cols}

\* the table of n rows with the given Symptoms? values and ingredient cells
Table(n, sym, cells) == [i \in 1..n |-> Row(BrandNames[i], sym[i], cells[i])]

(***************************************************************************)
(* Ingredients.names_to_ingredients                                        *)
(***************************************************************************)
RECURSIVE RowIngredients(_, _)
RowIngredients(row, k) ==
    IF k > Len(ingredient_cols) THEN <<>>
    ELSE LET ingredient == row[ingredient_cols[k]]
         IN  (IF ~IsNull(ingredient) THEN <<rename(ingredient.value)>> ELSE <<>>)
             \o RowIngredients(row, k + 1)

RECURSIVE NamesToIngredientsFrom(_, _, _)
NamesToIngredientsFrom(table, d, i) ==
    IF i > Len(table) THEN d
    ELSE NamesToIngredientsFrom(
            table, Put(Put(d, table[i][Brand], <<>>), table[i][Brand],
                       RowIngredients(table[i], 1)),
            i + 1)

NamesToIngredients(table) == NamesToIngredientsFrom(table, <<>>, 1)

(***************************************************************************)
(* Ingredients.names_to_groups: a lookup of an ingredient that is no key   *)
(* of ingredient_to_group raises KeyError.                                 *)
(***************************************************************************)
\* a faulty lookup: an ingredient without entry is dropped
GroupsOfSkipUnknown(ingredients) ==
    Returns({Get(ingredient_to_group, ingredients[j]) :
                j \in {m \in DOMAIN ingredients :
                          HasKey(ingredient_to_group, ingredients[m])}})

\* set([self.ingredient_to_group[ing] for ing in ingredients])
GroupsOf(ingredients) ==
    IF \E j \in DOMAIN ingredients : ~HasKey(ingredient_to_group, ingredients[j])
    THEN Raises("KeyError")
    ELSE Returns({Get(ingredient_to_group, ingredients[j]) : j \in DOMAIN ingredients})

NamesToGroupsRaises(nti) == \E k \in DOMAIN nti : GroupsOf(nti[k][2]).raised # "none"

NamesToGroups(nti) ==
    [k \in DOMAIN nti |-> <<nti[k][1], GroupsOf(nti[k][2]).value>>]

(***************************************************************************)
(* Ingredients.brand_allergy_status                                        *)
(***************************************************************************)
BrandAllergyStatusRaises(table) ==
    \E i \in DOMAIN table : map_yes_no(table[i][Symptoms]).raised # "none"

RECURSIVE BrandAllergyStatusFrom(_, _, _)
BrandAllergyStatusFrom(table, d, i) ==
    IF i > Len(table) THEN d
    ELSE BrandAllergyStatusFrom(
            table, Put(d, table[i][Brand], map_yes_no(table[i][Symptoms]).value),
            i + 1)

BrandAllergyStatus(table) == BrandAllergyStatusFrom(table, <<>>, 1)

(***************************************************************************)
(* Ingredients.groups_to_hits, one brand at a time.  Python iterates a set *)
(* of strings in an order that depends on the process's hash seed: every   *)
(* order of the brand's groups is possible.                                *)
(***************************************************************************)
SetOrders(S) ==
    {f \in [1..Cardinality(S) -> S] : \A i, j \in 1..Cardinality(S) : i # j => f[i] # f[j]}

\* a faulty loop body: the append of line 60 placed under the guard
AppendHitOnlyFirst(d, group, status) ==
    IF ~HasKey(d, group) THEN Put(d, group, <<status>>) ELSE d

\* lines 58-60 for one group of one brand
AppendHit(d, group, status) ==
    LET d1 == IF ~HasKey(d, group) THEN Put(d, group, <<>>) ELSE d
    IN  Put(d1, group, Append(Get(d1, group), status))

RECURSIVE AppendHits(_, _, _, _)
AppendHits(d, order, status, k) ==
    IF k > Len(order) THEN d
    ELSE AppendHits(AppendHit(d, order[k], status), order, status, k + 1)

(***************************************************************************)
(* Ingredients.stats_dat                                                   *)
(***************************************************************************)
RECURSIVE Sum(_)
Sum(hits) == IF hits = <<>> THEN 0 ELSE Head(hits) + Sum(Tail(hits))

\* scipy.stats.beta(a, b).mean() = a / (a + b), as numerator and denominator
BetaMean(a, b) == <<a, a + b>>

\* x * 2^n modulo m
RECURSIVE Doubled(_, _, _)
Doubled(x, n, m) == IF n = 0 THEN x % m ELSE Doubled((2 * x) % m, n - 1, m)

\* the least k with num * 2^k >= den
RECURSIVE Shift(_, _, _)
Shift(num, den, k) == IF num >= den THEN k ELSE Shift(2 * num, den, k + 1)

\* The float num / den (0 < num <= den) is m / 2^e with m the integer nearest
\* to num * 2^e / den (half to even) and 2^52 <= m <= 2^53, e = 52 + Shift.
\* FloatSide is the side of the quotient the float lies on: -1 below, 0 the
\* quotient itself, 1 above; it is read off num * 2^e modulo 2 * den.
FloatSide(num, den) ==
    LET e == 52 + Shift(num, den, 0)
        r2 == Doubled(num, e, 2 * den)
        r == r2 % den
    IN  IF r = 0 THEN 0
        ELSE IF 2 * r < den THEN -1
        ELSE IF 2 * r > den THEN 1
        ELSE IF r2 >= den THEN 1 ELSE -1

\* round(float(num / den), 2), in hundredths.  round() is correctly rounded
\* on the value the float holds: a float off an exact half goes to the side
\* it lies on (1/40 -> 0.03, 3/40 -> 0.07), a float that is the exact half
\* goes to the even hundredth (1/8 -> 0.12).  Away from a half the float's
\* error, below 2^-53, is too small to change the nearest hundredth.
Round2(frac) ==
    LET num == frac[1]
        den == frac[2]
        q == (100 * num) \div den
        r == (100 * num) % den
        side == FloatSide(num, den)
    IN  IF 2 * r < den THEN q
        ELSE IF 2 * r > den THEN q + 1
        ELSE IF side < 0 THEN q
        ELSE IF side > 0 THEN q + 1
        ELSE IF q % 2 = 0 THEN q ELSE q + 1

\* a faulty row: beta taken as n instead of n - alpha
StatsRowBetaIsN(name, hits) ==
    LET n == Len(hits)
        alpha == Sum(hits)
        beta == n
        mu == Round2(BetaMean(alpha + 1, beta + 1))
    IN  [group |-> name, posterior_mean |-> mu, allergy_hits |-> alpha, nproducts |-> n]

\* lines 67-71
StatsRow(name, hits) ==
    LET n == Len(hits)
        alpha == Sum(hits)
        beta == n - alpha
        mu == Round2(BetaMean(alpha + 1, beta + 1))
    IN  [group |-> name, posterior_mean |-> mu, allergy_hits |-> alpha, nproducts |-> n]

StatsRows(gth) == [k \in DOMAIN gth |-> StatsRow(gth[k][1], gth[k][2])]

\* seq[::-1]
Reversed(seq) == [k \in DOMAIN seq |-> seq[Len(seq) + 1 - k]]

\* One pass of the insertion sort that numpy's argsort(kind='quicksort')
\* runs on a partition of at most 16 values: the index moves left past the
\* indices of strictly greater values and stops at an equal or smaller one.
RECURSIVE InsertIndex(_, _, _)
InsertIndex(order, index, values) ==
    IF order # <<>> /\ values[index] < values[order[Len(order)]]
    THEN Append(InsertIndex(SubSeq(order, 1, Len(order) - 1), index, values),
                order[Len(order)])
    ELSE Append(order, index)

RECURSIVE ArgSortFrom(_, _, _)
ArgSortFrom(order, i, values) ==
    IF i > Len(values) THEN order
    ELSE ArgSortFrom(InsertIndex(order, i, values), i + 1, values)

\* numpy argsort(kind='quicksort') of at most 16 values, ascending.  Longer
\* arrays are partitioned first; a table of this model has at most
\* 2 * MaxRows rows, so the partitioning is not modelled.
ArgSort(values) == ArgSortFrom(<<>>, 1, values)

\* DataFrame.sort_values('posterior_mean', ascending=False) with the default
\* kind='quicksort': pandas reverses the column, takes numpy's argsort of
\* the reversed column, maps the result back to row positions and reverses
\* it, then takes the rows in that order.  posterior_mean is never NaN.
SortValues(rows) ==
    LET n == Len(rows)
        positions == Reversed([k \in 1..n |-> k])
        items == Reversed([k \in 1..n |-> rows[k].posterior_mean])
        sorted == ArgSort(items)
        indexer == Reversed([k \in 1..n |-> positions[sorted[k]]])
    IN  [k \in 1..n |-> rows[indexer[k]]]

(***************************************************************************)
(* The aggregation: a caller reads Ingredients(dat).stats_dat.             *)
(***************************************************************************)
Idle ==
    /\ raw = <<>>
    /\ renamed = <<>>
    /\ inv_g = 0
    /\ inv_i = 0
    /\ inverted = <<>>

InitTable(values) ==
    /\ pc = "names_to_ingredients"
    /\ \E n \in 0..MaxRows :
         \E sym \in [1..n -> SymptomValues],
            cells \in [1..n -> [IngredientColumnSet -> values]] :
            dat = Table(n, sym, cells)
    /\ names_to_ingredients = <<>>
    /\ names_to_groups = <<>>
    /\ groups_to_hits = <<>>
    /\ todo = <<>>
    /\ stats = <<>>
    /\ err = "none"
    /\ Idle

Init == InitTable(CellValues)

InitEmptyCells == InitTable(EmptyCellValues)

\* groups_to_hits reads names_to_groups, which reads names_to_ingredients
ComputeNamesToIngredients ==
    /\ pc = "names_to_ingredients"
    /\ names_to_ingredients' = NamesToIngredients(dat)
    /\ pc' = "names_to_groups"
    /\ UNCHANGED <<dat, names_to_groups, groups_to_hits, todo, stats, err,
                   raw, renamed, inv_g, inv_i, inverted>>

ComputeNamesToGroups ==
    /\ pc = "names_to_groups"
    /\ ~NamesToGroupsRaises(names_to_ingredients)
    /\ names_to_groups' = NamesToGroups(names_to_ingredients)
    /\ todo' = names_to_groups'
    /\ pc' = "groups_to_hits"
    /\ UNCHANGED <<dat, names_to_ingredients, groups_to_hits, stats, err,
                   raw, renamed, inv_g, inv_i, inverted>>

NamesToGroupsKeyError ==
    /\ pc = "names_to_groups"
    /\ NamesToGroupsRaises(names_to_ingredients)
    /\ err' = "KeyError"
    /\ pc' = "raised"
    /\ UNCHANGED <<dat, names_to_ingredients, names_to_groups, groups_to_hits, todo,
                   stats, raw, renamed, inv_g, inv_i, inverted>>

\* one pass of the outer loop of groups_to_hits: brand_allergy_status is read
\* once per group of the brand, and not at all for a brand without groups
GroupsToHitsBrand ==
    /\ pc = "groups_to_hits"
    /\ todo # <<>>
    /\ LET brand == Head(todo)[1]
           groups == Head(todo)[2]
       IN  /\ groups = {} \/ ~BrandAllergyStatusRaises(dat)
           /\ \E order \in SetOrders(groups) :
                groups_to_hits' =
                    AppendHits(groups_to_hits, order,
                               Get(BrandAllergyStatus(dat), brand), 1)
    /\ todo' = Tail(todo)
    /\ UNCHANGED <<pc, dat, names_to_ingredients, names_to_groups, stats, err,
                   raw, renamed, inv_g, inv_i, inverted>>

GroupsToHitsValueError ==
    /\ pc = "groups_to_hits"
    /\ todo # <<>>
    /\ Head(todo)[2] # {}
    /\ BrandAllergyStatusRaises(dat)
    /\ err' = "ValueError"
    /\ pc' = "raised"
    /\ UNCHANGED <<dat, names_to_ingredients, names_to_groups, groups_to_hits, todo,
                   stats, raw, renamed, inv_g, inv_i, inverted>>

StatsDat ==
    /\ pc = "groups_to_hits"
    /\ todo = <<>>
    /\ stats' = SortValues(StatsRows(groups_to_hits))
    /\ pc' = "done"
    /\ UNCHANGED <<dat, names_to_ingredients, names_to_groups, groups_to_hits, todo,
                   err, raw, renamed, inv_g, inv_i, inverted>>

Next ==
    \/ ComputeNamesToIngredients
    \/ ComputeNamesToGroups
    \/ NamesToGroupsKeyError
    \/ GroupsToHitsBrand
    \/ GroupsToHitsValueError
    \/ StatsDat

Spec == Init /\ [][Next]_vars

\* the same computation on tables with empty ingredient cells
SpecEmptyCells == InitEmptyCells /\ [][Next]_vars

(***************************************************************************)
(* rename, applied to a raw label and again to its own result.  The raw    *)
(* labels are the concatenations of at most MaxTokens tokens.              *)
(***************************************************************************)
Tokens ==
    {Str("Aloe"), Str("avena sativa"), Str("capry"), Str("Propylene"), Str("lycol"), Str("butyrospermum"),
     Str("tocopherol"), Str("polysorbate"), Str("jojoba"), Str("fragrance"), Str("decyl glucoside"),
     Str("ce"), Str("alcohol"), Str("cocos nucifera"), Str("water"), Str(" "), Str(".")}

RECURSIVE Join(_)
Join(ts) == IF ts = <<>> THEN <<>> ELSE Head(ts) \o Join(Tail(ts))

NoTable ==
    /\ dat = <<>>
    /\ names_to_ingredients = <<>>
    /\ names_to_groups = <<>>
    /\ groups_to_hits = <<>>
    /\ todo = <<>>
    /\ stats = <<>>
    /\ err = "none"

InitRename ==
    /\ pc = "rename"
    /\ \E n \in 0..MaxTokens : \E ts \in [1..n -> Tokens] : raw = Join(ts)
    /\ renamed = <<>>
    /\ inv_g = 0
    /\ inv_i = 0
    /\ inverted = <<>>
    /\ NoTable

Rename ==
    /\ pc = "rename"
    /\ renamed = <<>>
    /\ renamed' = <<rename(raw)>>
    /\ UNCHANGED <<pc, dat, names_to_ingredients, names_to_groups, groups_to_hits,
                   todo, stats, err, raw, inv_g, inv_i, inverted>>

RenameAgain ==
    /\ pc = "rename"
    /\ Len(renamed) = 1
    /\ renamed' = Append(renamed, rename(renamed[1]))
    /\ UNCHANGED <<pc, dat, names_to_ingredients, names_to_groups, groups_to_hits,
                   todo, stats, err, raw, inv_g, inv_i, inverted>>

NextRename == Rename \/ RenameAgain

SpecRename == InitRename /\ [][NextRename]_vars

(***************************************************************************)
(* The loops of ingredient_to_group, one step at a time.                   *)
(***************************************************************************)
InitInvert ==
    /\ pc = "invert"
    /\ inv_g = 1
    /\ inv_i = 1
    /\ inverted = <<>>
    /\ raw = <<>>
    /\ renamed = <<>>
    /\ NoTable

InvertIngredient ==
    /\ pc = "invert"
    /\ inv_g <= Len(group_to_ingredients)
    /\ inv_i <= Len(group_to_ingredients[inv_g].ingredients)
    /\ inverted' = InvertStep(inverted, group_to_ingredients[inv_g].group,
                              group_to_ingredients[inv_g].ingredients[inv_i])
    /\ inv_i' = inv_i + 1
    /\ UNCHANGED <<pc, dat, names_to_ingredients, names_to_groups, groups_to_hits,
                   todo, stats, err, raw, renamed, inv_g>>

InvertNextGroup ==
    /\ pc = "invert"
    /\ inv_g <= Len(group_to_ingredients)
    /\ inv_i > Len(group_to_ingredients[inv_g].ingredients)
    /\ inv_g' = inv_g + 1
    /\ inv_i' = 1
    /\ UNCHANGED <<pc, dat, names_to_ingredients, names_to_groups, groups_to_hits,
                   todo, stats, err, raw, renamed, inverted>>

InvertReturn ==
    /\ pc = "invert"
    /\ inv_g > Len(group_to_ingredients)
    /\ pc' = "inverted"
    /\ UNCHANGED <<dat, names_to_ingredients, names_to_groups, groups_to_hits,
                   todo, stats, err, raw, renamed, inv_g, inv_i, inverted>>

NextInvert == InvertIngredient \/ InvertNextGroup \/ InvertReturn

SpecInvert == InitInvert /\ [][NextInvert]_vars

(***************************************************************************)
(* What the claims speak of, read off the input table.                     *)
(***************************************************************************)
Min(S) == CHOOSE x \in S : \A y \in S : x <= y
Max(S) == CHOOSE x \in S : \A y \in S : x >= y

\* the canonical name of a non-missing cell has no entry in the index
Unmapped(cell) == ~IsNull(cell) /\ ~HasKey(ingredient_to_group, rename(cell.value))

\* a non-missing cell whose canonical name maps to the category
MapsTo(cell, cat) ==
    /\ ~IsNull(cell)
    /\ HasKey(ingredient_to_group, rename(cell.value))
    /\ Get(ingredient_to_group, rename(cell.value)) = cat

HasUnmappedCell(table) ==
    \E i \in DOMAIN table : \E c \in IngredientColumnSet : Unmapped(table[i][c])

InvalidSymptoms(s) == Lower(s) \notin {yes, no}

HasInvalidSymptoms(table) ==
    \E i \in DOMAIN table : InvalidSymptoms(table[i][Symptoms])

\* the categories a row (a brand) touches
RowCategories(row) ==
    {Get(ingredient_to_group, rename(row[c].value)) :
        c \in {x \in IngredientColumnSet :
                  /\ ~IsNull(row[x])
                  /\ HasKey(ingredient_to_group, rename(row[x].value))}}

\* the rows (one per brand) with an ingredient of the category
RowsTouching(table, cat) == {i \in DOMAIN table : cat \in RowCategories(table[i])}

PositiveRowsTouching(table, cat) ==
    {i \in RowsTouching(table, cat) : Lower(table[i][Symptoms]) = yes}

StatsGroups == {stats[k].group : k \in DOMAIN stats}

\* only whitespace and periods (the empty string included)
RECURSIVE IsBlank(_)
IsBlank(s) ==
    s = <<>> \/ (s[1] \in Whitespace \cup Period /\ IsBlank(SubSeq(s, 2, Len(s))))

EmptyCell(cell) == ~IsNull(cell) /\ IsBlank(cell.value)

\* the table with its empty cells made missing
WithoutEmptyCells(table) ==
    [i \in DOMAIN table |->
        [c \in DOMAIN table[i] |->
            IF c \in IngredientColumnSet
            THEN (IF EmptyCell(table[i][c]) THEN NULL ELSE table[i][c])
            ELSE table[i][c]]]

(***************************************************************************)
(* C1.  In the table stats_dat returns, nproducts of a category row is the *)
(* number of brands with at least one non-missing ingredient whose         *)
(* canonical name maps to the category, and allergy_hits the number of     *)
(* those brands whose outcome decodes to 1; a brand is counted once per    *)
(* category, in every category it touches, and each touched category has   *)
(* one row.                                                                *)
(***************************************************************************)
C1_CountsAreBrands ==
    pc = "done" =>
        /\ \A k \in DOMAIN stats :
            /\ stats[k].nproducts = Cardinality(RowsTouching(dat, stats[k].group))
            /\ stats[k].allergy_hits =
                    Cardinality(PositiveRowsTouching(dat, stats[k].group))
        /\ StatsGroups = UNION {RowCategories(dat[i]) : i \in DOMAIN dat}
        /\ Len(stats) = Cardinality(StatsGroups)

\* two brands, one with two ingredients of one category, one touching two
\* categories, and a row counting both brands with one hit
C1_Witness ==
    /\ pc = "done"
    /\ \E i \in DOMAIN dat :
          /\ \A c \in IngredientColumnSet : ~IsNull(dat[i][c])
          /\ Cardinality(RowCategories(dat[i])) = 1
    /\ \E i \in DOMAIN dat : Cardinality(RowCategories(dat[i])) = 2
    /\ \E k \in DOMAIN stats : stats[k].nproducts = 2 /\ stats[k].allergy_hits = 1

(***************************************************************************)
(* C2.  Every row of the table stats_dat returns has 0 <= allergy_hits <=  *)
(* nproducts, nproducts >= 1, posterior_mean within [0, 1] and equal to    *)
(* (allergy_hits + 1) / (nproducts + 2) rounded to two decimals, that is,  *)
(* in hundredths, an integer nearest to 100 * (hits + 1) / (n + 2).        *)
(***************************************************************************)
C2_PosteriorMean ==
    pc = "done" =>
        \A k \in DOMAIN stats :
            LET hits == stats[k].allergy_hits
                n == stats[k].nproducts
                mu == stats[k].posterior_mean
                diff == 100 * (hits + 1) - mu * (n + 2)
            IN  /\ 0 <= hits /\ hits <= n
                /\ n >= 1
                /\ 0 <= mu /\ mu <= 100
                /\ 2 * diff <= n + 2
                /\ -2 * diff <= n + 2

\* the Aloe row of two brands, one of them with symptoms: 2/4 = 0.50
C2_Witness ==
    /\ pc = "done"
    /\ \E k \in DOMAIN stats :
          stats[k] = [group |-> "Aloe", posterior_mean |-> 50,
                      allergy_hits |-> 1, nproducts |-> 2]

(***************************************************************************)
(* C3 (as amended).  At the end of the inversion every listed ingredient   *)
(* is a key of the index and maps to the LAST category that lists it in    *)
(* table-definition order; the loops build the dict ingredient_to_group.   *)
(***************************************************************************)
ListedIn(ing) ==
    {g \in DOMAIN group_to_ingredients :
        \E i \in DOMAIN group_to_ingredients[g].ingredients :
            group_to_ingredients[g].ingredients[i] = ing}

AllIngredients ==
    UNION {{group_to_ingredients[g].ingredients[i] :
                i \in DOMAIN group_to_ingredients[g].ingredients} :
           g \in DOMAIN group_to_ingredients}

C3_LastCategoryWins ==
    pc = "inverted" =>
        /\ \A ing \in AllIngredients :
            /\ HasKey(inverted, ing)
            /\ Get(inverted, ing) = group_to_ingredients[Max(ListedIn(ing))].group
        /\ inverted = ingredient_to_group

C3_Witness ==
    /\ pc = "inverted"
    /\ Cardinality(ListedIn(Str("silica"))) = 2
    /\ Get(inverted, Str("silica")) = "Minerals"
    /\ Get(inverted, Str("polyquaternium-7")) = "Quaternary_Ammonium_Compounds"

(***************************************************************************)
(* C3 (as claimed).  An ingredient listed under several categories maps to *)
(* the FIRST category that lists it.                                       *)
(***************************************************************************)
C3_FirstCategoryWins ==
    pc = "inverted" =>
        \A ing \in AllIngredients :
            Get(inverted, ing) = group_to_ingredients[Min(ListedIn(ing))].group

(***************************************************************************)
(* C4.  For a table with a Symptoms? value that does not lowercase to      *)
(* "yes" or "no", stats_dat returns no table and the computation ends with *)
(* the invalid-value error (ValueError), whatever the ingredient cells     *)
(* hold.                                                                   *)
(***************************************************************************)
C4_InvalidSymptomsFail ==
    HasInvalidSymptoms(dat) =>
        /\ pc # "done"
        /\ pc = "raised" => err = "ValueError"

(***************************************************************************)
(* C5.  rename is idempotent: renaming the result of rename returns it     *)
(* unchanged.                                                              *)
(***************************************************************************)
C5_RenameIdempotent ==
    Len(renamed) = 2 => renamed[2] = renamed[1]

(***************************************************************************)
(* C6.  Round trip of the static table: every ingredient listed under a    *)
(* category is mapped by the inverted index to exactly that category.      *)
(***************************************************************************)
C6_RoundTrip ==
    pc = "inverted" =>
        \A g \in DOMAIN group_to_ingredients :
            \A i \in DOMAIN group_to_ingredients[g].ingredients :
                /\ HasKey(inverted, group_to_ingredients[g].ingredients[i])
                /\ Get(inverted, group_to_ingredients[g].ingredients[i])
                        = group_to_ingredients[g].group

(***************************************************************************)
(* C8.  When a non-missing ingredient cell normalizes to a string that is  *)
(* no key of the index, names_to_groups raises KeyError: the computation   *)
(* never gets past names_to_groups, never ends with another error, and     *)
(* builds no category set, no hit list and no table.  (Stated as the       *)
(* contrapositive: a state past names_to_groups, or with another error, or *)
(* with a result, has a table without unmapped cell.)                      *)
(***************************************************************************)
C8_UnmappedIngredientFails ==
    (\/ pc \in {"groups_to_hits", "done"}
     \/ pc = "raised" /\ err # "KeyError"
     \/ names_to_groups # <<>>
     \/ groups_to_hits # <<>>
     \/ stats # <<>>)
        => ~HasUnmappedCell(dat)

\* an unknown ingredient beside a known one, in a table of two brands
C8_Witness ==
    /\ pc = "raised"
    /\ err = "KeyError"
    /\ Len(dat) = 2
    /\ \E i \in DOMAIN dat, c1, c2 \in IngredientColumnSet :
          /\ dat[i][c1] = Cell(Str("Talc"))
          /\ MapsTo(dat[i][c2], "Water")

(***************************************************************************)
(* C9.  A missing or empty ingredient cell (the empty string, or only      *)
(* whitespace and periods) is skipped: it contributes no canonical         *)
(* ingredient, and the computation raises KeyError only if the table with  *)
(* its empty cells made missing has an unmapped ingredient.                *)
(***************************************************************************)
C9_EmptyCellsSkipped ==
    /\ pc # "names_to_ingredients" =>
          names_to_ingredients = NamesToIngredients(WithoutEmptyCells(dat))
    /\ (pc = "raised" /\ err = "KeyError") => HasUnmappedCell(WithoutEmptyCells(dat))

(***************************************************************************)
(* C10.  rename returns the output of the lowest-numbered of its 12 rules  *)
(* whose predicate holds on the preprocessed string, and the preprocessed  *)
(* string when no rule matches.                                            *)
(***************************************************************************)
RuleOutput ==
    <<Str("aloe vera"), Str("avena sativa"), Str("caprylyl lycol"), Str("propylene gylcol"), Str("shea butter"),
      Str("tocopherols"), Str("polysorbate"), Str("jojoba"), Str("fragrance"), Str("decyl glucoside"),
      Str("cetyl alcohol"), Str("cocos nucifera")>>

RulePredicate(k, s) ==
    CASE k = 1 -> Contains(lit.aloe, s)
      [] k = 2 -> Contains(lit.avena_sativa, s)
      [] k = 3 -> Contains(lit.capry, s) /\ Contains(lit.lycol, s)
      [] k = 4 -> Contains(lit.propylene, s) /\ Contains(lit.lycol, s)
      [] k = 5 -> Contains(lit.butyrospermum, s)
      [] k = 6 -> Contains(lit.tocopherol, s)
      [] k = 7 -> Contains(lit.polysorbate, s)
      [] k = 8 -> Contains(lit.jojoba, s)
      [] k = 9 -> Contains(lit.fragrance, s)
      [] k = 10 -> Contains(lit.decyl_glucoside, s)
      [] k = 11 -> StartsWith(s, lit.ce) /\ Contains(lit.alcohol, s)
      [] k = 12 -> Contains(lit.cocos_nucifera, s)

MatchingRules(s) == {k \in DOMAIN RuleOutput : RulePredicate(k, s)}

C10_FirstMatchWins ==
    Len(renamed) = 1 =>
        LET s == Preprocess(raw)
        IN  \/ \E k \in DOMAIN RuleOutput :
                /\ RulePredicate(k, s)
                /\ \A j \in 1..(k - 1) : ~RulePredicate(j, s)
                /\ renamed[1] = RuleOutput[k]
            \/ /\ \A k \in DOMAIN RuleOutput : ~RulePredicate(k, s)
               /\ renamed[1] = s

\* rules 3 and 4 both match, after a lower-numbered rule's text: rule 3 wins
C10_Witness ==
    /\ Len(renamed) = 1
    /\ MatchingRules(Preprocess(raw)) = {3, 4}
    /\ renamed[1] = Str("caprylyl lycol")

=============================================================================
